-------------------- MODULE HttpStatusRefinement_proofs --------------------
(***************************************************************************)
(* With a punctual event loop no two workers check the peer at a time, and *)
(* the updates of its record are atomic, for any number of workers and any *)
(* configuration in which a check ends long before the take-over age.      *)
(*                                                                         *)
(* The argument is about the age of the record.  A free peer is claimed by *)
(* the first check timer that finds it older than an interval, so its age  *)
(* is small when a check begins; the timeout ends the check, so the age    *)
(* never reaches the take-over; and without a take-over only a worker that *)
(* has claimed the free peer is checking it.                               *)
(***************************************************************************)
EXTENDS HttpStatusRefinement, HttpUpstreamCheck_proofs, FiniteSetTheorems

\* The circumstances: the cached times agree, no worker is lost, no connection
\* is kept, and neither an interval with the timeout after it nor an age of
\* the record at the start with the timeout after it reaches the take-over.
Settled ==
  /\ MaxLag = 0 /\ MaxGone = 0 /\ NWorkers # 0
  /\ ~CheckTypes[Type].keepalive
  /\ CheckInterval + CheckTimeout < TakeoverAge
  /\ \A age \in InitAges : age + CheckTimeout + 1 < TakeoverAge

\* The age up to which the peer may stay free over a tick.
Slack == TakeoverAge - CheckTimeout - 2

\* Worker w is going to claim the peer before the tick ends, if it is free.
Claims(w) == Running(w) /\ (due[w] \/ (pc[w] = "lock" /\ interval[w] = CheckInterval))

\* What is known of one worker.
Sole(w) ==
  /\ life[w] # "gone" /\ conn[w] # "kept"
  /\ ~Running(w) => ~timer[w]
  /\ Checking(w) => owner = w
  /\ interval[w] # TakeoverAge
  /\ owner = w /\ pc[w] = "unlocked" => access_age <= Slack + 1
  /\ timer[w] => access_age <= Slack + 1 + elapsed[w]
  /\ pc[w] = "clean" => access_age = 0

\* What is known of a peer that nobody checks.
Free ==
  owner = NoPid =>
    /\ access_age <= Slack + 1
    /\ access_age > Slack => \E w \in Pids : Claims(w)

SoleInv ==
  /\ OwnerInv
  /\ access_age <= Slack + 1 + CheckTimeout
  /\ \E w \in Pids : Running(w)
  /\ \A w \in Pids : Sole(w)
  /\ Free

-----------------------------------------------------------------------------
\* No worker is lost where the bound allows none.
LEMMA NoneGone ==
  ASSUME MaxGone = 0, NEW v \in Pids, Gone(v)
  PROVE  FALSE
<1>1. IsFiniteSet({w \in Pids : life[w] = "gone"})
  BY PidsAssumption, FS_Subset
<1>2. NumGone \in Nat
  BY <1>1, FS_CardinalityType DEF NumGone
<1> QED BY <1>2 DEF Gone

\* Where some worker process is configured, some worker runs at first.
LEMMA SomeRunning ==
  ASSUME NWorkers # 0, Init
  PROVE  \E w \in Pids : Running(w)
<1>1. {w \in Pids : Running(w)} # {}
  BY FS_EmptySet DEF Init, NumRunning
<1> QED BY <1>1

\* The slack is as long as an interval, and ends a timeout before the age of
\* a take-over.
LEMMA SlackBound ==
  ASSUME Settled
  PROVE  /\ Slack \in Nat /\ CheckInterval <= Slack + 1
         /\ CheckTimeout \in Nat /\ CheckInterval \in Nat \ {0} /\ TakeoverAge \in Nat
         /\ Slack + 2 + CheckTimeout = TakeoverAge /\ AgeCap = TakeoverAge
BY ConfAssumption, Bounds DEF Settled, Slack, AgeCap

\* The cached times agree, and a running worker that owns the peer and is in
\* no handler has its timeout set.
LEMMA SoleTypes ==
  ASSUME Settled, SoleInv
  PROVE  /\ TypeOK /\ access_age \in Nat
         /\ \A w \in Pids : Sound(w) /\ Owned(w) /\ lag[w] = 0 /\ elapsed[w] \in 0..CheckTimeout
<1>1. TypeOK /\ \A w \in Pids : Sound(w) /\ Owned(w)
  BY DEF SoleInv, OwnerInv, CheckInv
<1>2. lag \in [Pids -> 0..0] /\ elapsed \in [Pids -> 0..CheckTimeout] /\ access_age \in 0..AgeCap
  BY <1>1 DEF TypeOK, Settled
<1>3. AgeCap \in Nat
  BY Bounds
<1> QED BY <1>1, <1>2, <1>3

\* A step leaves the private state of worker w alone.
Same(w) ==
  /\ life'[w] = life[w] /\ pc'[w] = pc[w] /\ due'[w] = due[w]
  /\ interval'[w] = interval[w] /\ conn'[w] = conn[w]
  /\ timer'[w] = timer[w] /\ elapsed'[w] = elapsed[w]

\* A step of worker v concerns v and, unless the peer is its own or free, not
\* the owner: what is known of the other workers stays true.
LEMMA StepSole ==
  ASSUME Settled, SoleInv, NEW v \in Pids,
         \A w \in Pids : w # v => Same(w),
         owner' = owner \/ {owner, owner'} \subseteq {v, NoPid},
         access_age' \in {access_age, 0},
         Running(v) => Running(v)',
         OwnerInv', Sole(v)', Free'
  PROVE  SoleInv'
<1>0. /\ access_age \in Nat /\ Slack \in Nat /\ CheckTimeout \in Nat /\ NoPid \notin Pids
      /\ \A w \in Pids : elapsed[w] \in Nat
  BY SoleTypes, SlackBound, PidsAssumption
<1>1. access_age' <= Slack + 1 + CheckTimeout /\ access_age' <= access_age
  BY <1>0 DEF SoleInv
<1>2. \E w \in Pids : Running(w)'
  BY DEF SoleInv, Same, Running
<1>3. ASSUME NEW w \in Pids, w # v PROVE Sole(w)'
  <2>1. Sole(w) /\ Same(w)
    BY <1>3 DEF SoleInv
  <2>2. Checking(w)' => owner' = w
    BY <1>0, <1>3, <2>1 DEF Sole, Same, Checking, Running
  <2>3. owner' = w => owner = w
    BY <1>0, <1>3
  <2>4. timer[w] => access_age' <= Slack + 1 + elapsed[w]
    BY <1>0, <1>1, <2>1 DEF Sole
  <2>5. access_age <= Slack + 1 => access_age' <= Slack + 1
    BY <1>0, <1>1
  <2> QED BY <2>1, <2>2, <2>3, <2>4, <2>5 DEF Sole, Same, Running
<1> QED BY <1>1, <1>2, <1>3 DEF SoleInv

\* A peer that stays free is claimed as before, or has just been checked.
LEMMA FreeKept ==
  ASSUME Settled, SoleInv, NEW v \in Pids,
         \A w \in Pids : w # v => Same(w),
         owner' = owner, access_age' \in {access_age, 0},
         owner = NoPid /\ access_age > Slack /\ Claims(v) => Claims(v)'
  PROVE  Free'
<1>0. access_age \in Nat /\ Slack \in Nat
  BY SoleTypes, SlackBound
<1>1. CASE access_age' = 0
  BY <1>0, <1>1 DEF Free
<1>2. CASE access_age' = access_age
  <2>1. \A w \in Pids : w # v /\ Claims(w) => Claims(w)'
    BY DEF Claims, Same, Running
  <2> QED BY <1>2, <2>1 DEF Free, SoleInv
<1> QED BY <1>1, <1>2

-----------------------------------------------------------------------------
\* begin_handler before the lock: with agreeing times the interval is the age
\* of the record, too young for a take-over.
LEMMA ReadSole ==
  ASSUME Settled, SoleInv, OwnerInv', NEW v \in Pids, begin_read(v)
  PROVE  SoleInv'
<1>0. /\ TypeOK /\ access_age \in Nat /\ lag[v] = 0 /\ Sole(v) /\ Sound(v)
      /\ access_age <= Slack + 1 + CheckTimeout
  BY SoleTypes DEF SoleInv
<1>1. /\ due' = [due EXCEPT ![v] = FALSE] /\ interval' = [interval EXCEPT ![v] = Interval(v)]
      /\ pc' = [pc EXCEPT ![v] = "lock"] /\ Running(v) /\ ~timer[v] /\ owner # v
      /\ UNCHANGED <<owner, access_age, life, conn, timer, elapsed>>
  BY DEF begin_read, InLoop, Goto, shm, link
<1>2. \A w \in Pids : w # v => Same(w)
  BY <1>0, <1>1 DEF TypeOK, Same
<1>3. /\ Interval(v) # TakeoverAge
      /\ access_age > Slack => Interval(v) = CheckInterval
  BY <1>0, SlackBound DEF Interval
<1>4. Sole(v)'
  BY <1>0, <1>1, <1>3 DEF TypeOK, Sole, Checking, Running
<1>5. access_age > Slack => Claims(v)'
  BY <1>0, <1>1, <1>3 DEF TypeOK, Claims, Running
<1>6. Free'
  BY <1>1, <1>2, <1>5, FreeKept
<1> QED BY <1>1, <1>2, <1>4, <1>6, StepSole DEF Running

\* A worker skips the peer only when it is its own.
LEMMA SkipSole ==
  ASSUME Settled, SoleInv, OwnerInv', NEW v \in Pids, begin_skip(v)
  PROVE  SoleInv'
<1>0. TypeOK /\ Sole(v)
  BY SoleTypes DEF SoleInv
<1>1. /\ due' = [due EXCEPT ![v] = FALSE] /\ owner = v
      /\ UNCHANGED <<owner, access_age, life, pc, interval, conn, timer, elapsed>>
  BY <1>0 DEF begin_skip, InLoop, shm, link, Sole, Checking
<1>2. \A w \in Pids : w # v => Same(w)
  BY <1>0, <1>1 DEF TypeOK, Same
<1>3. Sole(v)' /\ Free'
  BY <1>0, <1>1, PidsAssumption DEF Sole, Checking, Running, Free
<1> QED BY <1>1, <1>2, <1>3, StepSole DEF Running

\* Under the mutex a free peer may be claimed, and no other is taken over.
LEMMA LockSole ==
  ASSUME Settled, SoleInv, OwnerInv', NEW v \in Pids, begin_lock(v)
  PROVE  SoleInv'
<1>0. /\ TypeOK /\ Sole(v) /\ Sound(v) /\ NoPid \notin Pids
      /\ interval[v] \in {0, CheckInterval} /\ interval[v] < TakeoverAge
  <2>1. TypeOK /\ Sole(v) /\ Sound(v) /\ NoPid \notin Pids
    BY SoleTypes, PidsAssumption DEF SoleInv
  <2>2. interval[v] \in {0, CheckInterval}
    BY <2>1 DEF TypeOK, Sole
  <2> QED BY <2>1, <2>2, SlackBound
<1>1. /\ interval' = [interval EXCEPT ![v] = 0] /\ pc' = [pc EXCEPT ![v] = "unlocked"]
      /\ pc[v] = "lock" /\ UNCHANGED <<access_age, life, due, conn, timer, elapsed>>
      /\ owner' = IF interval[v] >= CheckInterval /\ owner = NoPid THEN v ELSE owner
  <2>1. ~(interval[v] >= TakeoverAge)
    BY <1>0, SlackBound
  <2> QED BY <2>1 DEF begin_lock, Goto, link
<1>2. \A w \in Pids : w # v => Same(w)
  BY <1>0, <1>1 DEF TypeOK, Same
<1>3. Running(v) /\ ~timer[v] /\ owner # v
  BY <1>0, <1>1 DEF Sound
<1>4. owner' = v => access_age <= Slack + 1
  BY <1>1, <1>3 DEF SoleInv, Free
<1>5. Sole(v)'
  BY <1>0, <1>1, <1>3, <1>4, SlackBound DEF TypeOK, Sole, Checking, Running
<1>6. CASE owner' = v
  <2>1. Free'
    BY <1>0, <1>6 DEF Free
  <2> QED BY <1>1, <1>2, <1>3, <1>5, <1>6, <2>1, StepSole DEF Running
<1>7. CASE owner' = owner /\ (owner = NoPid => interval[v] < CheckInterval)
  <2>1. owner = NoPid /\ Claims(v) => Claims(v)'
    BY <1>0, <1>1, <1>7, SlackBound DEF TypeOK, Claims, Running
  <2>2. Free'
    BY <1>1, <1>2, <1>7, <2>1, FreeKept
  <2> QED BY <1>1, <1>2, <1>3, <1>5, <1>7, <2>2, StepSole DEF Running
<1> QED BY <1>0, <1>1, <1>6, <1>7, SlackBound

\* The peer is not this worker's: the handler ends.
LEMMA ReturnSole ==
  ASSUME Settled, SoleInv, OwnerInv', NEW v \in Pids, begin_return(v)
  PROVE  SoleInv'
<1>0. TypeOK /\ Sole(v) /\ Sound(v)
  BY SoleTypes DEF SoleInv
<1>1. /\ pc[v] = "unlocked" /\ owner # v /\ pc' = [pc EXCEPT ![v] = "loop"]
      /\ UNCHANGED <<owner, access_age, life, due, interval, conn, timer, elapsed>>
  BY DEF begin_return, Goto, shm, link
<1>2. \A w \in Pids : w # v => Same(w)
  BY <1>0, <1>1 DEF TypeOK, Same
<1>3. Running(v) /\ ~timer[v]
  BY <1>0, <1>1 DEF Sound
<1>4. Sole(v)' /\ (Claims(v) => Claims(v)')
  BY <1>0, <1>1, <1>3 DEF TypeOK, Sole, Checking, Running, Claims
<1>5. Free'
  BY <1>1, <1>2, <1>4, FreeKept
<1> QED BY <1>1, <1>2, <1>3, <1>4, <1>5, StepSole DEF Running

-----------------------------------------------------------------------------
\* A step of the owner that keeps the peer.
LEMMA OwnStep ==
  ASSUME Settled, SoleInv, OwnerInv', NEW v \in Pids, owner = v,
         \A w \in Pids : w # v => Same(w),
         owner' = owner, life' = life, access_age' \in {access_age, 0}, Sole(v)'
  PROVE  SoleInv'
<1>1. Free'
  BY PidsAssumption DEF Free
<1> QED BY <1>1, StepSole DEF Running

\* connect_handler starts the timeout at an age within the slack.
LEMMA ConnectSole ==
  ASSUME Settled, SoleInv, OwnerInv', NEW v \in Pids, connect_handler(v)
  PROVE  SoleInv'
<1>0. TypeOK /\ Sole(v) /\ Sound(v) /\ access_age \in Nat
  BY SoleTypes DEF SoleInv
<1>1. /\ pc[v] = "unlocked" /\ owner = v
      /\ UNCHANGED <<owner, access_age, life, due, interval>>
  BY DEF connect_handler, shm
<1>2. Running(v) /\ ~timer[v] /\ access_age <= Slack + 1
  BY <1>0, <1>1 DEF Sound, Sole
<1>3. CASE connect_new(v)
  <2>1. /\ pc' = [pc EXCEPT ![v] = "loop"] /\ conn' = [conn EXCEPT ![v] = "checking"]
        /\ timer' = [timer EXCEPT ![v] = TRUE] /\ elapsed' = [elapsed EXCEPT ![v] = 0]
    BY <1>3 DEF connect_new, Started, Goto
  <2>2. \A w \in Pids : w # v => Same(w)
    BY <1>0, <1>1, <2>1 DEF TypeOK, Same
  <2>3. Sole(v)'
    BY <1>0, <1>1, <1>2, <2>1, SlackBound DEF TypeOK, Sole, Checking, Running
  <2> QED BY <1>1, <2>2, <2>3, OwnStep
<1>4. CASE connect_fail(v, TRUE)
  <2>1. /\ pc' = [pc EXCEPT ![v] = "report"] /\ conn' = [conn EXCEPT ![v] = "none"]
        /\ UNCHANGED <<timer, elapsed>>
    BY <1>4 DEF connect_fail, Report, Goto
  <2>2. \A w \in Pids : w # v => Same(w)
    BY <1>0, <1>1, <2>1 DEF TypeOK, Same
  <2>3. Sole(v)'
    BY <1>0, <1>1, <1>2, <2>1 DEF TypeOK, Sole, Checking, Running
  <2> QED BY <1>1, <2>2, <2>3, OwnStep
<1> QED BY <1>0, <1>3, <1>4 DEF connect_handler, connect_reuse, Sole

\* Events come to the owner alone: its check is the only one in flight.
LEMMA EventSole ==
  ASSUME Settled, SoleInv, OwnerInv', NEW v \in Pids,
         \/ peek_handler(v, CheckTypes) \/ send_handler(v, CheckTypes)
         \/ recv_handler(v, CheckTypes) \/ timeout_handler(v, FALSE)
  PROVE  SoleInv'
<1>0. TypeOK /\ Sole(v) /\ Sound(v)
  BY SoleTypes DEF SoleInv
<1>1. /\ InLoop(v) /\ timer[v]
      /\ UNCHANGED <<owner, access_age, life, due, interval, conn, elapsed>>
  BY <1>0 DEF peek_handler, send_handler, recv_handler, timeout_handler, Sound, InFlight,
              shm, link
<1>2. owner = v
  BY <1>0, <1>1 DEF Sole, Checking, InLoop
<1>3. /\ timer' = timer \/ timer' = [timer EXCEPT ![v] = FALSE]
      /\ pc' = [pc EXCEPT ![v] = "report"] \/ (pc' = pc /\ timer' = timer)
  BY DEF peek_handler, send_handler, recv_handler, timeout_handler, Report, Goto, link
<1>4. \A w \in Pids : w # v => Same(w)
  BY <1>0, <1>1, <1>3 DEF TypeOK, Same
<1>5. Sole(v)'
  BY <1>0, <1>1, <1>2, <1>3 DEF TypeOK, Sole, Checking, Running, InLoop
<1> QED BY <1>1, <1>2, <1>4, <1>5, OwnStep

\* status_update is the owner's, and leaves the record at age zero.
LEMMA StatusSole ==
  ASSUME Settled, SoleInv, OwnerInv', NEW v \in Pids,
         status_load(v) \/ status_store(v) \/ status_publish(v)
  PROVE  SoleInv'
<1>0. TypeOK /\ Sole(v) /\ Sound(v) /\ Owned(v) /\ lag[v] = 0 /\ elapsed[v] \in Nat
  <2>1. TypeOK /\ Sound(v) /\ Owned(v) /\ lag[v] = 0 /\ elapsed[v] \in 0..CheckTimeout
    BY SoleTypes
  <2>2. Sole(v) /\ CheckTimeout \in Nat
    BY SlackBound DEF SoleInv
  <2> QED BY <2>1, <2>2
<1>1. /\ pc[v] \in {"report", "store", "publish"}
      /\ UNCHANGED <<owner, life, due, interval, conn, timer, elapsed>>
  BY DEF status_load, status_store, status_publish, link
<1>2. owner = v /\ Running(v)
  BY <1>0, <1>1 DEF Sole, Checking, Sound
<1>3. check[v].clean
  BY <1>0, <1>2 DEF Owned
<1>4. \/ /\ pc' = [pc EXCEPT ![v] = "store"] \/ pc' = [pc EXCEPT ![v] = "publish"]
         /\ access_age' = access_age
      \/ pc' = [pc EXCEPT ![v] = "clean"] /\ access_age' = 0
  BY <1>0, <1>3 DEF status_load, status_store, status_publish, Goto
<1>5. \A w \in Pids : w # v => Same(w)
  BY <1>0, <1>1, <1>4 DEF TypeOK, Same
<1>6. Sole(v)'
  <2>1. pc'[v] \in {"store", "publish", "clean"} /\ (pc'[v] = "clean" => access_age' = 0)
    BY <1>0, <1>4 DEF TypeOK
  <2>2. timer[v] => access_age' <= Slack + 1 + elapsed[v]
    <3>1. access_age' = access_age \/ access_age' = 0
      BY <1>4
    <3>2. timer[v] => access_age <= Slack + 1 + elapsed[v]
      BY <1>0 DEF Sole
    <3> QED BY <1>0, <3>1, <3>2, SlackBound
  <2> QED BY <1>0, <1>1, <1>2, <2>1, <2>2 DEF Sole, Checking, Running
<1> QED BY <1>1, <1>2, <1>4, <1>5, <1>6, OwnStep

\* clean_event frees a peer whose record is of age zero.
LEMMA CleanSole ==
  ASSUME Settled, SoleInv, OwnerInv', NEW v \in Pids, clean_event(v, CheckTypes)
  PROVE  SoleInv'
<1>0. TypeOK /\ Sole(v) /\ Sound(v) /\ NoPid \notin Pids
  BY SoleTypes, PidsAssumption DEF SoleInv
<1>1. /\ pc[v] = "clean" /\ pc' = [pc EXCEPT ![v] = "loop"] /\ owner' = NoPid
      /\ conn' = [conn EXCEPT ![v] = "none"] /\ timer' = [timer EXCEPT ![v] = FALSE]
      /\ elapsed' = [elapsed EXCEPT ![v] = 0]
      /\ UNCHANGED <<access_age, life, due, interval>>
  BY DEF clean_event, Cleaned, Settled, Goto
<1>2. Running(v) /\ owner = v /\ access_age = 0
  BY <1>0, <1>1 DEF Sole, Checking, Sound
<1>3. \A w \in Pids : w # v => Same(w)
  BY <1>0, <1>1 DEF TypeOK, Same
<1>4. Sole(v)'
  BY <1>0, <1>1, <1>2 DEF TypeOK, Sole, Checking, Running
<1>5. Free'
  BY <1>1, <1>2, SlackBound DEF Free
<1> QED BY <1>1, <1>2, <1>3, <1>4, <1>5, StepSole DEF Running

\* A new worker has nothing to do with the peer.
LEMMA AddSole ==
  ASSUME Settled, SoleInv, OwnerInv', NEW v \in Pids, add_timers(v)
  PROVE  SoleInv'
<1>0. TypeOK /\ Sole(v) /\ Sound(v)
  BY SoleTypes DEF SoleInv
<1>1. /\ life[v] = "new" /\ life' = [life EXCEPT ![v] = "run"]
      /\ UNCHANGED <<owner, access_age, pc, due, interval, conn, timer, elapsed>>
  BY DEF add_timers, shm, link
<1>2. ~timer[v] /\ pc[v] = "loop" /\ ~Running(v)
  BY <1>0, <1>1 DEF Sole, Sound, Running
<1>3. \A w \in Pids : w # v => Same(w)
  BY <1>0, <1>1 DEF TypeOK, Same
<1>4. Sole(v)'
  BY <1>0, <1>1, <1>2 DEF TypeOK, Sole, Checking, Running
<1>5. Free'
  BY <1>1, <1>2, <1>3, FreeKept DEF Claims
<1> QED BY <1>1, <1>2, <1>3, <1>4, <1>5, StepSole

\* Time: the free peer has been claimed by now, or is within the slack; the
\* timeout of a check in flight is still running.
LEMMA TickSole ==
  ASSUME Settled, SoleInv, OwnerInv', PunctualTick
  PROVE  SoleInv'
<1>0. TypeOK /\ access_age \in Nat /\ NoPid \notin Pids
  BY SoleTypes, PidsAssumption
<1>1. \A w \in Pids : pc[w] = "loop" /\ ~due[w] /\ (timer[w] => elapsed[w] < CheckTimeout)
  BY DEF PunctualTick, PromptTick
<1>2. /\ access_age' = Saturate(access_age + 1, AgeCap)
      /\ due' = [w \in Pids |-> Running(w)]
      /\ elapsed' = [w \in Pids |-> IF timer[w] THEN Saturate(elapsed[w] + 1, CheckTimeout)
                                                 ELSE elapsed[w]]
      /\ UNCHANGED <<owner, life, pc, interval, conn, timer>>
  BY DEF PunctualTick, PromptTick, Tick
<1>3. access_age' \in Nat /\ access_age' <= access_age + 1
  <2>1. AgeCap \in Nat
    BY Bounds
  <2>2. ASSUME NEW n \in Nat, NEW cap \in Nat
        PROVE  Saturate(n, cap) \in Nat /\ Saturate(n, cap) <= n
    BY DEF Saturate
  <2> QED BY <1>0, <1>2, <2>1, <2>2
<1>4. owner = NoPid => access_age <= Slack
  <2>1. \A w \in Pids : ~Claims(w)
    BY <1>1 DEF Claims
  <2>2. owner = NoPid => ~(access_age > Slack)
    BY <2>1 DEF SoleInv, Free
  <2> QED BY <1>0, <2>2, SlackBound
<1>5. ASSUME NEW w \in Pids PROVE Sole(w)'
  <2>1. Sole(w) /\ elapsed[w] \in 0..CheckTimeout
    BY SoleTypes DEF SoleInv
  <2>2. timer[w] => elapsed'[w] = elapsed[w] + 1
    <3>1. ASSUME NEW n \in 0..CheckTimeout, n < CheckTimeout
          PROVE  Saturate(n + 1, CheckTimeout) = n + 1
      BY <3>1, ConfAssumption DEF Saturate
    <3> QED BY <1>1, <1>2, <2>1, <3>1
  <2>3. timer[w] => access_age' <= Slack + 1 + elapsed'[w]
    <3>1. timer[w] => access_age <= Slack + 1 + elapsed[w]
      BY <2>1 DEF Sole
    <3>2. Slack \in Nat /\ elapsed[w] \in Nat
      BY <2>1, SlackBound
    <3> QED BY <1>0, <1>3, <2>2, <3>1, <3>2
  <2> QED BY <1>1, <1>2, <2>1, <2>3 DEF Sole, Checking, Running
<1>6. access_age' <= Slack + 1 + CheckTimeout
  <2>1. CASE owner = NoPid
    BY <1>0, <1>3, <1>4, <2>1, SlackBound
  <2>2. CASE owner \in Pids
    <3>1. Running(owner)
      <4>1. life[owner] \in {"new", "run", "gone"} /\ Sole(owner) /\ Sound(owner)
        BY <1>0, <2>2, SoleTypes DEF SoleInv, TypeOK
      <4> QED BY <2>2, <4>1 DEF Sole, Sound, Running
    <3>2. timer[owner]
      BY <1>1, <2>2, <3>1, SoleTypes DEF Owned
    <3>3. access_age <= Slack + 1 + elapsed[owner] /\ elapsed[owner] < CheckTimeout
      BY <1>1, <2>2, <3>2 DEF SoleInv, Sole
    <3>4. elapsed[owner] \in 0..CheckTimeout
      BY <2>2, SoleTypes
    <3> QED BY <1>0, <1>3, <3>3, <3>4, SlackBound
  <2> QED BY <1>0, <2>1, <2>2 DEF TypeOK
<1>7. Free'
  <2>1. \E w \in Pids : Claims(w)'
    BY <1>2 DEF SoleInv, Claims, Running
  <2>2. owner = NoPid => access_age' <= Slack + 1
    BY <1>0, <1>3, <1>4, SlackBound
  <2> QED BY <1>2, <2>1, <2>2 DEF Free
<1>8. \E w \in Pids : Running(w)'
  BY <1>2 DEF SoleInv, Running
<1> QED BY <1>5, <1>6, <1>7, <1>8 DEF SoleInv

\* Every step keeps the invariant.
LEMMA NextSole ==
  ASSUME Settled
  PROVE  SoleInv /\ [PunctualNext]_vars => SoleInv'
<1> SUFFICES ASSUME SoleInv, [PunctualNext]_vars PROVE SoleInv'
  OBVIOUS
<1>1. OwnerInv'
  BY NextOwned DEF SoleInv, PunctualNext, PunctualTick, PromptTick, Next
<1>2. CASE UNCHANGED vars
  <2>1. UNCHANGED <<owner, access_age, life, pc, due, interval, conn, timer, elapsed>>
    BY <1>2 DEF vars, shm, proc, link
  <2>2. Free' /\ \A w \in Pids : Sole(w)'
    BY <2>1 DEF SoleInv, Sole, Free, Checking, Claims, Running
  <2> QED BY <1>1, <2>1, <2>2 DEF SoleInv, Running
<1>3. CASE PunctualTick
  BY <1>1, <1>3, TickSole
<1>4. ASSUME NEW v \in Pids, Worker(v) PROVE SoleInv'
  <2>1. CASE begin_read(v) \/ begin_skip(v) \/ begin_lock(v) \/ begin_return(v)
    BY <1>1, <2>1, ReadSole, SkipSole, LockSole, ReturnSole
  <2>2. CASE \/ peek_handler(v, CheckTypes) \/ send_handler(v, CheckTypes)
             \/ recv_handler(v, CheckTypes) \/ timeout_handler(v, FALSE)
    BY <1>1, <2>2, EventSole
  <2>3. CASE connect_handler(v)
    BY <1>1, <2>3, ConnectSole
  <2>4. CASE status_load(v) \/ status_store(v) \/ status_publish(v)
    BY <1>1, <2>4, StatusSole
  <2>5. CASE clean_event(v, CheckTypes)
    BY <1>1, <2>5, CleanSole
  <2>6. CASE discard_handler(v, CheckTypes)
    BY <2>6 DEF discard_handler, SoleInv, Sole
  <2>7. CASE time_update(v)
    BY <2>7, SoleTypes DEF time_update
  <2>8. CASE Lifecycle(v)
    BY <1>1, <2>8, AddSole, NoneGone DEF Settled, Lifecycle, clear_all_events, crash
  <2> QED BY <1>4, <2>1, <2>2, <2>3, <2>4, <2>5, <2>6, <2>7, <2>8
          DEF Worker, HandlerStep, NetworkEvent
<1> QED BY <1>2, <1>3, <1>4 DEF PunctualNext

\* At first the peer is free, and some worker runs.
LEMMA InitSole ==
  ASSUME Settled
  PROVE  Init => SoleInv
<1> SUFFICES ASSUME Init PROVE SoleInv
  OBVIOUS
<1>0. TypeOK /\ OwnerInv /\ TakeoverAge \in Nat /\ CheckTimeout \in Nat /\ NoPid \notin Pids
  BY InitOwned, SlackBound, PidsAssumption DEF OwnerInv, CheckInv
<1>1. access_age \in Nat /\ access_age <= Slack
  <2>1. access_age \in Nat
    BY <1>0, Bounds DEF TypeOK
  <2>2. access_age + CheckTimeout + 1 < TakeoverAge
    BY DEF Init, Settled
  <2> QED BY <1>0, <2>1, <2>2 DEF Slack
<1>2. \E w \in Pids : Running(w)
  BY SomeRunning DEF Settled
<1>3. ASSUME NEW w \in Pids PROVE Sole(w)
  BY <1>0, SlackBound DEF Init, Sole, Checking
<1>4. Free
  BY <1>1, SlackBound DEF Free
<1> QED BY <1>0, <1>1, <1>2, <1>3, <1>4, SlackBound DEF SoleInv

\* No two workers check the peer at a time, as long as the event loops are
\* punctual and a check that begins within the slack ends, by its timeout at
\* the latest, before the record is 16 intervals old.
THEOREM OneChecker ==
  ASSUME Settled
  PROVE  PunctualSpec => []AtMostOneChecker
<1>1. SoleInv => AtMostOneChecker
  BY DEF SoleInv, Sole, AtMostOneChecker
<1> QED BY <1>1, InitSole, NextSole, PTL DEF PunctualSpec

-----------------------------------------------------------------------------
(***************************************************************************)
(* The refinement.  The mapping looks at the worker that is in the middle  *)
(* of status_update; as there is one at most, each value of the abstract   *)
(* record is given by its place.                                           *)
(***************************************************************************)
Alone(v) == \A w \in Pids : pc[w] \in {"store", "publish"} => w = v

\* The counter that worker w is counting up, before and after its store.
Counted(w) ==
  LET counter == IF check[w].result THEN rise_count ELSE fall_count
  IN /\ pc[w] = "store" => count[w] = counter
     /\ pc[w] = "publish" => Inc(count[w]) = counter

CountInv == SoleInv /\ \A w \in Pids : Counted(w)

\* Between updates the abstract record is the record.  Between the load and the
\* store it has the result of the update counted.  After the store only the
\* flag is ahead, and after a success the reset of the failures.
IdleMap ==
  (\A w \in Pids : pc[w] \notin {"store", "publish"})
    => RiseBar = rise_count /\ FallBar = fall_count /\ DownBar = down

StoreMap(v) ==
  Alone(v) /\ pc[v] = "store" =>
    IF check[v].result
    THEN /\ RiseBar = Inc(count[v]) /\ FallBar = 0
         /\ DownBar = (down /\ ~(Inc(count[v]) >= RiseCount))
    ELSE /\ RiseBar = rise_count /\ FallBar = Inc(count[v])
         /\ DownBar = (down \/ Inc(count[v]) >= FallCount)

PublishMap(v) ==
  Alone(v) /\ pc[v] = "publish" =>
    /\ RiseBar = rise_count
    /\ IF check[v].result
       THEN FallBar = 0 /\ DownBar = (down /\ ~(rise_count >= RiseCount))
       ELSE FallBar = fall_count /\ DownBar = (down \/ fall_count >= FallCount)

Mapped == TypeOK => IdleMap /\ \A v \in Pids : StoreMap(v) /\ PublishMap(v)

\* What the mapping gives at each place of the update.
LEMMA Mapping == Mapped
<1> SUFFICES ASSUME TypeOK PROVE IdleMap /\ \A v \in Pids : StoreMap(v) /\ PublishMap(v)
  BY DEF Mapped
<1>1. IdleMap
  BY DEF TypeOK, IdleMap, RiseBar, FallBar, DownBar, Updating
<1>2. ASSUME NEW v \in Pids PROVE check[v].result \in BOOLEAN /\ down \in BOOLEAN
  BY DEF TypeOK
<1>3. ASSUME NEW v \in Pids PROVE StoreMap(v)
  <2> SUFFICES ASSUME Alone(v), pc[v] = "store" PROVE StoreMap(v)
    BY DEF StoreMap
  <2>1. Loaded = count[v]
    BY DEF Loaded, Alone
  <2>2. /\ Updating(TRUE, {"store"}) <=> check[v].result
        /\ Updating(FALSE, {"store"}) <=> ~check[v].result
        /\ Updating(TRUE, {"store", "publish"}) <=> check[v].result
        /\ Updating(FALSE, {"store", "publish"}) <=> ~check[v].result
        /\ {"publish", "store"} = {"store", "publish"}
    BY <1>2 DEF Updating, Alone
  <2>3. CASE check[v].result
    <3>1. RiseBar = Inc(count[v]) /\ FallBar = 0
      BY <2>1, <2>2, <2>3 DEF RiseBar, FallBar
    <3> QED BY <1>2, <2>2, <2>3, <3>1 DEF StoreMap, DownBar
  <2>4. CASE ~check[v].result
    <3>1. RiseBar = rise_count /\ FallBar = Inc(count[v])
      BY <2>1, <2>2, <2>4 DEF RiseBar, FallBar
    <3> QED BY <1>2, <2>2, <2>4, <3>1 DEF StoreMap, DownBar
  <2> QED BY <2>3, <2>4
<1>4. ASSUME NEW v \in Pids PROVE PublishMap(v)
  <2> SUFFICES ASSUME Alone(v), pc[v] = "publish" PROVE PublishMap(v)
    BY DEF PublishMap
  <2>1. /\ ~Updating(TRUE, {"store"})
        /\ ~Updating(FALSE, {"store"})
        /\ Updating(TRUE, {"store", "publish"}) <=> check[v].result
        /\ Updating(FALSE, {"store", "publish"}) <=> ~check[v].result
        /\ {"publish", "store"} = {"store", "publish"}
    BY <1>2 DEF Updating, Alone
  <2>2. CASE check[v].result
    <3>1. RiseBar = rise_count /\ FallBar = 0
      BY <2>1, <2>2 DEF RiseBar, FallBar
    <3> QED BY <1>2, <2>1, <2>2, <3>1 DEF PublishMap, DownBar
  <2>3. CASE ~check[v].result
    <3>1. RiseBar = rise_count /\ FallBar = fall_count
      BY <2>1, <2>3 DEF RiseBar, FallBar
    <3> QED BY <1>2, <2>1, <2>3, <3>1 DEF PublishMap, DownBar
  <2> QED BY <2>2, <2>3
<1> QED BY <1>1, <1>3, <1>4

\* It gives the same in the next state.
LEMMA MappingNext == Mapped'
BY Mapping, PTL

\* The abstract record does not change.
BarsStay == RiseBar' = RiseBar /\ FallBar' = FallBar /\ DownBar' = DownBar

\* A worker in status_update is the only one.
LEMMA OnlyUpdater ==
  ASSUME Settled, SoleInv, NEW v \in Pids, pc[v] \in {"report", "store", "publish"}
  PROVE  Alone(v)
<1>1. \A w \in Pids : pc[w] \in {"report", "store", "publish"} => owner = w
  <2>1. \A w \in Pids : Sound(w) /\ Sole(w)
    BY SoleTypes DEF SoleInv
  <2> QED BY <2>1 DEF Sound, Sole, Checking
<1> QED BY <1>1 DEF Alone

\* One more: the saturating counters of both specifications agree.
LEMMA IncIsOneMore ==
  ASSUME NEW n \in 0..CountCap
  PROVE  Inc(n) = Status!CountOneMore(n) /\ Inc(n) \in Nat
BY ConfAssumption DEF Inc, Saturate, CountCap, Status!CountOneMore, Status!StatusCap

\* The load counts the result, in one step of PeerStatus.
LEMMA LoadCounts ==
  ASSUME Settled, SoleInv, TypeOK', NEW v \in Pids, status_load(v)
  PROVE  \E result \in BOOLEAN : Status!status_update(result)
<1>0. /\ TypeOK /\ check[v].result \in BOOLEAN /\ down \in BOOLEAN
      /\ rise_count \in 0..CountCap /\ fall_count \in 0..CountCap
      /\ RiseCount \in Nat /\ FallCount \in Nat
      /\ pc \in [Pids -> Places] /\ count \in [Pids -> 0..CountCap]
  BY SoleTypes, ConfAssumption DEF TypeOK
<1>1. /\ pc[v] = "report" /\ pc' = [pc EXCEPT ![v] = "store"]
      /\ UNCHANGED <<fall_count, down, check>>
  BY DEF status_load, Goto
<1>2. Alone(v)
  BY <1>1, OnlyUpdater
<1>3. RiseBar = rise_count /\ FallBar = fall_count /\ DownBar = down
  BY <1>0, <1>1, <1>2, Mapping DEF Alone, Mapped, IdleMap
<1>4. Alone(v)' /\ pc'[v] = "store"
  BY <1>0, <1>1, <1>2 DEF Alone
<1>5. StoreMap(v)'
  BY MappingNext DEF Mapped
<1>6. CASE check[v].result
  <2>1. count'[v] = rise_count
    BY <1>0, <1>6 DEF status_load
  <2>2. /\ RiseBar' = Inc(rise_count) /\ FallBar' = 0
        /\ DownBar' = (down /\ ~(Inc(rise_count) >= RiseCount))
    BY <1>1, <1>4, <1>5, <1>6, <2>1 DEF StoreMap, Inc
  <2>3. Inc(rise_count) = Status!CountOneMore(rise_count) /\ Inc(rise_count) \in Nat
    BY <1>0, IncIsOneMore
  <2>4. Status!rise
    BY <1>0, <1>3, <2>2, <2>3 DEF Status!rise
  <2> QED BY <2>4 DEF Status!status_update
<1>7. CASE ~check[v].result
  <2>1. count'[v] = fall_count /\ rise_count' = 0
    BY <1>0, <1>7 DEF status_load
  <2>2. /\ RiseBar' = 0 /\ FallBar' = Inc(fall_count)
        /\ DownBar' = (down \/ Inc(fall_count) >= FallCount)
    BY <1>1, <1>4, <1>5, <1>7, <2>1 DEF StoreMap, Inc
  <2>3. Inc(fall_count) = Status!CountOneMore(fall_count)
    BY <1>0, IncIsOneMore
  <2>4. Status!fall
    BY <1>3, <2>2, <2>3 DEF Status!fall
  <2> QED BY <2>4 DEF Status!status_update
<1> QED BY <1>6, <1>7

\* The store changes nothing that the abstract record has not got already.
LEMMA StoreStutters ==
  ASSUME Settled, CountInv, TypeOK', NEW v \in Pids, status_store(v)
  PROVE  BarsStay
<1>0. TypeOK /\ SoleInv /\ pc \in [Pids -> Places]
  BY SoleTypes DEF CountInv, TypeOK
<1>1. /\ pc[v] = "store" /\ pc' = [pc EXCEPT ![v] = "publish"] /\ UNCHANGED <<down, check>>
      /\ check[v].result => rise_count' = Inc(count[v])
      /\ ~check[v].result => fall_count' = Inc(count[v]) /\ rise_count' = rise_count
  BY DEF status_store, Goto
<1>2. Alone(v)
  BY <1>0, <1>1, OnlyUpdater
<1>3. Alone(v)' /\ pc'[v] = "publish"
  BY <1>0, <1>1, <1>2 DEF Alone
<1>4. StoreMap(v) /\ PublishMap(v)'
  BY <1>0, Mapping, MappingNext DEF Mapped
<1>5. CASE check[v].result
  <2>1. /\ RiseBar = Inc(count[v]) /\ FallBar = 0
        /\ DownBar = (down /\ ~(Inc(count[v]) >= RiseCount))
    BY <1>1, <1>2, <1>4, <1>5 DEF StoreMap
  <2>2. /\ RiseBar' = rise_count' /\ FallBar' = 0
        /\ DownBar' = (down' /\ ~(rise_count' >= RiseCount))
    BY <1>1, <1>3, <1>4, <1>5 DEF PublishMap
  <2> QED BY <1>1, <1>5, <2>1, <2>2 DEF BarsStay
<1>6. CASE ~check[v].result
  <2>1. /\ RiseBar = rise_count /\ FallBar = Inc(count[v])
        /\ DownBar = (down \/ Inc(count[v]) >= FallCount)
    BY <1>1, <1>2, <1>4, <1>6 DEF StoreMap
  <2>2. /\ RiseBar' = rise_count' /\ FallBar' = fall_count'
        /\ DownBar' = (down' \/ fall_count' >= FallCount)
    BY <1>1, <1>3, <1>4, <1>6 DEF PublishMap
  <2> QED BY <1>1, <1>6, <2>1, <2>2 DEF BarsStay
<1> QED BY <1>5, <1>6

\* The comparison changes the flag as the abstract record has it already.
LEMMA PublishStutters ==
  ASSUME Settled, CountInv, TypeOK', NEW v \in Pids, status_publish(v)
  PROVE  BarsStay
<1>0. /\ TypeOK /\ SoleInv /\ Counted(v) /\ pc \in [Pids -> Places]
      /\ rise_count \in Nat /\ fall_count \in Nat /\ RiseCount \in Nat /\ FallCount \in Nat
  <2>1. TypeOK /\ SoleInv /\ Counted(v)
    BY SoleTypes DEF CountInv
  <2>2. /\ rise_count \in 0..CountCap /\ fall_count \in 0..CountCap
        /\ pc \in [Pids -> Places]
    BY <2>1 DEF TypeOK
  <2> QED BY <2>1, <2>2, Bounds, ConfAssumption
<1>1. /\ pc[v] = "publish" /\ UNCHANGED rise_count
      /\ pc' = [pc EXCEPT ![v] = "clean"] \/ pc' = [pc EXCEPT ![v] = "loop"]
  BY DEF status_publish, Goto
<1>2. /\ check[v].result => fall_count' = 0 /\ down' = (down /\ rise_count < RiseCount)
      /\ ~check[v].result => /\ fall_count' = fall_count
                             /\ down' = (down \/ fall_count >= FallCount)
  <2>1. /\ check[v].result => Inc(count[v]) = rise_count
        /\ ~check[v].result => Inc(count[v]) = fall_count
    BY <1>0, <1>1 DEF Counted
  <2> QED BY <2>1 DEF status_publish
<1>3. Alone(v)
  BY <1>0, <1>1, OnlyUpdater
<1>4. \A w \in Pids : pc'[w] \notin {"store", "publish"}
  <2>1. pc'[v] \in {"clean", "loop"} /\ \A w \in Pids : w # v => pc'[w] = pc[w]
    BY <1>0, <1>1
  <2> QED BY <1>3, <2>1 DEF Alone
<1>5. PublishMap(v) /\ IdleMap'
  BY <1>0, Mapping, MappingNext DEF Mapped
<1>6. RiseBar' = rise_count' /\ FallBar' = fall_count' /\ DownBar' = down'
  BY <1>4, <1>5 DEF IdleMap
<1>7. CASE check[v].result
  <2>1. /\ RiseBar = rise_count /\ FallBar = 0
        /\ DownBar = (down /\ ~(rise_count >= RiseCount))
    BY <1>1, <1>3, <1>5, <1>7 DEF PublishMap
  <2> QED BY <1>0, <1>1, <1>2, <1>6, <1>7, <2>1 DEF BarsStay
<1>8. CASE ~check[v].result
  <2>1. /\ RiseBar = rise_count /\ FallBar = fall_count
        /\ DownBar = (down \/ fall_count >= FallCount)
    BY <1>1, <1>3, <1>5, <1>8 DEF PublishMap
  <2> QED BY <1>1, <1>2, <1>6, <1>8, <2>1 DEF BarsStay
<1> QED BY <1>7, <1>8

\* A step that leaves the updates alone: the counters, the flag and every
\* worker in status_update stay as they are.
Aside ==
  /\ UNCHANGED <<rise_count, fall_count, down, count>>
  /\ \A w \in Pids :
       /\ pc'[w] \in {"store", "publish"} <=> pc[w] \in {"store", "publish"}
       /\ pc[w] \in {"store", "publish"} => pc'[w] = pc[w] /\ check'[w] = check[w]

\* Such a step is a stutter of the abstract record.
LEMMA AsideStutters ==
  ASSUME Settled, CountInv, TypeOK', Aside
  PROVE  BarsStay /\ \A w \in Pids : Counted(w)'
<1>0. TypeOK /\ SoleInv
  BY SoleTypes DEF CountInv
<1>1. ASSUME NEW w \in Pids PROVE Counted(w)'
  <2>1. /\ rise_count' = rise_count /\ fall_count' = fall_count /\ count'[w] = count[w]
        /\ pc'[w] \in {"store", "publish"} => pc'[w] = pc[w] /\ check'[w] = check[w]
    BY DEF Aside
  <2> QED BY <2>1 DEF CountInv, Counted
<1>2. CASE \A w \in Pids : pc[w] \notin {"store", "publish"}
  <2>1. \A w \in Pids : pc'[w] \notin {"store", "publish"}
    BY <1>2 DEF Aside
  <2>2. IdleMap /\ IdleMap'
    BY <1>0, Mapping, MappingNext DEF Mapped
  <2>3. RiseBar = rise_count /\ FallBar = fall_count /\ DownBar = down
    BY <1>2, <2>2 DEF IdleMap
  <2>4. RiseBar' = rise_count' /\ FallBar' = fall_count' /\ DownBar' = down'
    BY <2>1, <2>2 DEF IdleMap
  <2>5. rise_count' = rise_count /\ fall_count' = fall_count /\ down' = down
    BY DEF Aside
  <2>6. RiseBar' = RiseBar /\ FallBar' = FallBar
    BY <2>3, <2>4, <2>5
  <2>7. DownBar' = DownBar
    BY <2>3, <2>4, <2>5, Zenon
  <2> QED BY <1>1, <2>6, <2>7 DEF BarsStay
<1>3. ASSUME NEW v \in Pids, pc[v] \in {"store", "publish"}
      PROVE  BarsStay
  <2>1. Alone(v) /\ Alone(v)'
    BY <1>0, <1>3, OnlyUpdater DEF Alone, Aside
  <2>2. pc'[v] = pc[v] /\ check'[v] = check[v] /\ count'[v] = count[v]
    BY <1>3 DEF Aside
  <2>3. CASE pc[v] = "store"
    <3>1. StoreMap(v) /\ StoreMap(v)'
      BY <1>0, Mapping, MappingNext DEF Mapped
    <3>2. Inc(count[v])' = Inc(count[v]) /\ rise_count' = rise_count /\ down' = down
      BY <2>2 DEF Aside, Inc
    <3>3. CASE check[v].result
      <4>1. /\ RiseBar = Inc(count[v]) /\ FallBar = 0
            /\ DownBar = (down /\ ~(Inc(count[v]) >= RiseCount))
        BY <2>1, <2>3, <3>1, <3>3 DEF StoreMap
      <4>2. /\ RiseBar' = Inc(count[v])' /\ FallBar' = 0
            /\ DownBar' = (down' /\ ~(Inc(count[v])' >= RiseCount))
        BY <2>1, <2>2, <2>3, <3>1, <3>3 DEF StoreMap
      <4> QED BY <3>2, <4>1, <4>2 DEF BarsStay
    <3>4. CASE ~check[v].result
      <4>1. /\ RiseBar = rise_count /\ FallBar = Inc(count[v])
            /\ DownBar = (down \/ Inc(count[v]) >= FallCount)
        BY <2>1, <2>3, <3>1, <3>4 DEF StoreMap
      <4>2. /\ RiseBar' = rise_count' /\ FallBar' = Inc(count[v])'
            /\ DownBar' = (down' \/ Inc(count[v])' >= FallCount)
        BY <2>1, <2>2, <2>3, <3>1, <3>4 DEF StoreMap
      <4> QED BY <3>2, <4>1, <4>2 DEF BarsStay
    <3> QED BY <3>3, <3>4
  <2>4. CASE pc[v] = "publish"
    <3>1. PublishMap(v) /\ PublishMap(v)'
      BY <1>0, Mapping, MappingNext DEF Mapped
    <3>2. rise_count' = rise_count /\ fall_count' = fall_count /\ down' = down
      BY DEF Aside
    <3>3. CASE check[v].result
      <4>1. /\ RiseBar = rise_count /\ FallBar = 0
            /\ DownBar = (down /\ ~(rise_count >= RiseCount))
        BY <2>1, <2>4, <3>1, <3>3 DEF PublishMap
      <4>2. /\ RiseBar' = rise_count' /\ FallBar' = 0
            /\ DownBar' = (down' /\ ~(rise_count' >= RiseCount))
        BY <2>1, <2>2, <2>4, <3>1, <3>3 DEF PublishMap
      <4> QED BY <3>2, <4>1, <4>2 DEF BarsStay
    <3>4. CASE ~check[v].result
      <4>1. /\ RiseBar = rise_count /\ FallBar = fall_count
            /\ DownBar = (down \/ fall_count >= FallCount)
        BY <2>1, <2>4, <3>1, <3>4 DEF PublishMap
      <4>2. /\ RiseBar' = rise_count' /\ FallBar' = fall_count'
            /\ DownBar' = (down' \/ fall_count' >= FallCount)
        BY <2>1, <2>2, <2>4, <3>1, <3>4 DEF PublishMap
      <4> QED BY <3>2, <4>1, <4>2 DEF BarsStay
    <3> QED BY <3>3, <3>4
  <2> QED BY <1>3, <2>3, <2>4
<1> QED BY <1>1, <1>2, <1>3

\* status_update keeps what is known of the counter it is counting up.
LEMMA StatusCounted ==
  ASSUME Settled, CountInv, NEW v \in Pids,
         status_load(v) \/ status_store(v) \/ status_publish(v)
  PROVE  \A w \in Pids : Counted(w)'
<1>0. TypeOK /\ SoleInv /\ check[v].result \in BOOLEAN
  BY SoleTypes DEF CountInv, TypeOK
<1>1. pc[v] \in {"report", "store", "publish"} /\ check' = check
  BY DEF status_load, status_store, status_publish
<1>2. \E l : pc' = [pc EXCEPT ![v] = l]
  BY DEF status_load, status_store, status_publish, Goto
<1>3. ASSUME NEW w \in Pids, w # v PROVE pc'[w] \notin {"store", "publish"}
  <2>1. pc[w] \notin {"store", "publish"}
    BY <1>0, <1>1, <1>3, OnlyUpdater DEF Alone
  <2> QED BY <1>0, <1>2, <1>3, <2>1 DEF TypeOK
<1>4. Counted(v)'
  <2>1. CASE status_load(v)
    <3>1. /\ pc'[v] = "store"
          /\ check[v].result => count'[v] = rise_count /\ rise_count' = rise_count
          /\ ~check[v].result => count'[v] = fall_count
          /\ fall_count' = fall_count
      BY <1>0, <2>1 DEF status_load, Goto, TypeOK
    <3> QED BY <1>1, <3>1 DEF Counted
  <2>2. CASE status_store(v)
    <3>1. /\ pc'[v] = "publish" /\ count' = count
          /\ check[v].result => rise_count' = Inc(count[v])
          /\ ~check[v].result => fall_count' = Inc(count[v])
      BY <1>0, <2>2 DEF status_store, Goto, TypeOK
    <3> QED BY <1>1, <3>1 DEF Counted, Inc
  <2>3. CASE status_publish(v)
    <3>1. pc'[v] \in {"clean", "loop"}
      BY <1>0, <2>3 DEF status_publish, Goto, TypeOK
    <3> QED BY <3>1 DEF Counted
  <2> QED BY <2>1, <2>2, <2>3
<1> QED BY <1>3, <1>4 DEF Counted

\* All the other steps leave the updates alone.
LEMMA StepsAside ==
  ASSUME Settled, SoleInv,
         PunctualTick \/ UNCHANGED vars \/ \E v \in Pids : Worker(v)
  PROVE  Aside \/ \E v \in Pids : status_load(v) \/ status_store(v) \/ status_publish(v)
<1>0. TypeOK
  BY SoleTypes
<1>1. CASE PunctualTick \/ UNCHANGED vars
  BY <1>1 DEF PunctualTick, PromptTick, Tick, vars, shm, proc, Aside
<1>2. ASSUME NEW v \in Pids, Worker(v),
             ~(status_load(v) \/ status_store(v) \/ status_publish(v))
      PROVE  Aside
  <2>1. UNCHANGED <<rise_count, fall_count, down, count>>
    <3>1. ~Gone(v)
      BY NoneGone DEF Settled
    <3> QED BY <1>2, <3>1
            DEF Worker, HandlerStep, NetworkEvent, Lifecycle, begin_read, begin_skip,
                begin_lock, begin_return, connect_handler, timeout_handler, peek_handler,
                send_handler, recv_handler, discard_handler, clean_event, time_update,
                clear_all_events, crash, add_timers, shm, proc
  <2>2. \/ pc' = pc /\ check' = check
        \/ /\ pc[v] \notin {"store", "publish"}
           /\ \E l \in Places \ {"store", "publish"} : pc' = [pc EXCEPT ![v] = l]
           /\ check' = check \/ \E c : check' = [check EXCEPT ![v] = c]
    <3>1. CASE begin_read(v) \/ begin_skip(v) \/ begin_lock(v) \/ begin_return(v)
      BY <3>1 DEF begin_read, begin_skip, begin_lock, begin_return, InLoop, Goto, Places
    <3>2. CASE connect_handler(v)
      BY <3>2 DEF connect_handler, connect_reuse, connect_new, connect_fail, Report, Goto,
                  Places
    <3>3. CASE \/ peek_handler(v, CheckTypes) \/ send_handler(v, CheckTypes)
               \/ recv_handler(v, CheckTypes) \/ timeout_handler(v, FALSE)
      BY <3>3 DEF peek_handler, send_handler, recv_handler, timeout_handler, InFlight,
                  InLoop, Report, Goto, Places
    <3>4. CASE clean_event(v, CheckTypes) \/ discard_handler(v, CheckTypes)
      BY <3>4 DEF clean_event, discard_handler, proc, Goto, Places
    <3>5. CASE time_update(v) \/ Lifecycle(v)
      BY <3>5, NoneGone DEF Settled, time_update, Lifecycle, clear_all_events, crash, add_timers
    <3> QED BY <1>2, <3>1, <3>2, <3>3, <3>4, <3>5 DEF Worker, HandlerStep, NetworkEvent
  <2> QED BY <1>0, <2>1, <2>2 DEF Aside, TypeOK
<1> QED BY <1>1, <1>2

\* Every step counts one result, or is a stutter, in PeerStatus.
LEMMA StepRefines ==
  ASSUME Settled
  PROVE  CountInv /\ [PunctualNext]_vars
           => CountInv' /\ [\E result \in BOOLEAN : Status!status_update(result)]_Status!status
<1> SUFFICES ASSUME CountInv, [PunctualNext]_vars
             PROVE  /\ \A w \in Pids : Counted(w)'
                    /\ \/ \E result \in BOOLEAN : Status!status_update(result)
                       \/ BarsStay
  BY NextSole DEF CountInv, Status!status, BarsStay
<1>0. SoleInv /\ TypeOK'
  <2>1. SoleInv /\ SoleInv'
    BY NextSole DEF CountInv
  <2> QED BY <2>1 DEF SoleInv, OwnerInv, CheckInv
<1>1. CASE Aside
  BY <1>0, <1>1, AsideStutters
<1>2. ASSUME NEW v \in Pids, status_load(v) \/ status_store(v) \/ status_publish(v)
      PROVE  /\ \A w \in Pids : Counted(w)'
             /\ \/ \E result \in BOOLEAN : Status!status_update(result)
                \/ BarsStay
  BY <1>0, <1>2, StatusCounted, LoadCounts, StoreStutters, PublishStutters
<1> QED BY <1>0, <1>1, <1>2, StepsAside DEF PunctualNext

\* The unlocked loads, stores and resets of status_update implement PeerStatus:
\* under the circumstances in which OneChecker holds, every result is counted
\* exactly once and the published flag is the one its counters call for.
THEOREM UpdatesAtomic ==
  ASSUME Settled
  PROVE  PunctualSpec => StatusUpdatesAtomic
<1>1. Init => CountInv /\ Status!StatusInit
  <2> SUFFICES ASSUME Init PROVE CountInv /\ Status!StatusInit
    OBVIOUS
  <2>1. SoleInv /\ TypeOK
    BY InitSole, SoleTypes
  <2>2. \A w \in Pids : pc[w] \notin {"store", "publish"}
    BY DEF Init
  <2>3. RiseBar = rise_count /\ FallBar = fall_count /\ DownBar = down
    BY <2>1, <2>2, Mapping DEF Mapped, IdleMap
  <2>4. CountInv
    BY <2>1, <2>2 DEF CountInv, Counted
  <2> QED BY <2>3, <2>4 DEF Init, Status!StatusInit
<1> QED BY <1>1, StepRefines, PTL DEF PunctualSpec, StatusUpdatesAtomic, Status!StatusSpec
=============================================================================
