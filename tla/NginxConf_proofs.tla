-------------------------- MODULE NginxConf_proofs --------------------------
(***************************************************************************)
(* Proofs about NginxConf, for any services, any Endpoints and any number  *)
(* of changes and crashes.                                                 *)
(*                                                                         *)
(* The files define no upstream twice as long as no Endpoints is deleted.  *)
(* Then the event filter writes nothing, and the argument follows the one  *)
(* thread that does: between its two passes over a file the file holds no  *)
(* block of the service, and what it has parsed still is the file when it  *)
(* writes it back.                                                         *)
(***************************************************************************)
EXTENDS NginxConf, SequenceTheorems, TLAPS

\* Nothing has been deleted, as far as the event filter still has to see.
NoneDeleted == \A i \in DOMAIN events : ~events[i].deleted

\* What the worker relies on at each place between its passes over the files.
WorkerInv(w) ==
    /\ w.pc = "del_write" =>
         \A f \in Files : IF f \in w.todo THEN w.parsed[f] = file[f]
                                          ELSE \A s \in w.svc : file[f][s] = <<>>
    /\ w.pc = "add" => \A f \in Files, s \in w.svc : file[f][s] = <<>>
    /\ w.pc \in {"parse", "write"} =>
         \A f \in w.todo, s \in w.svc : file[f][s] = <<>>
    /\ w.pc = "write" => w.parsed = file

\* The inductive invariant while Reconcile alone writes the files.
AloneFacts ==
    /\ Acceptable
    /\ thread["filter"].pc = "idle"
    /\ thread["poll"].pc \in {"idle", "reload", "stop", "start"}
    /\ WorkerInv(thread["worker"])

AloneInv == ConfTypeOK /\ AloneFacts

-----------------------------------------------------------------------------
\* The fields of what an Endpoints object may hold.
LEMMA ValueType ==
    ASSUME NEW o \in Objects, NEW v \in o
    PROVE  /\ v \in EpValues /\ v.addrs \in Nat /\ v.files \subseteq Files
           /\ Wanted(v) \subseteq Files
BY ConfAssumption DEF Objects, Wanted

\* A thread at rest has the type of a thread.
LEMMA IdleType == NoBlocks \in Blocks /\ Idle \in Locals
<1>1. <<>> \in Seq(Nat)
  OBVIOUS
<1>2. NoBlocks \in Blocks
  BY <1>1 DEF NoBlocks, Blocks
<1> QED BY <1>2 DEF Idle, Locals, Places, Objects

\* The initial files hold the blocks that are asked for, each once.
LEMMA InitType == ConfInit => ConfTypeOK /\ Acceptable
<1> SUFFICES ASSUME ConfInit PROVE ConfTypeOK /\ Acceptable
  OBVIOUS
<1>1. ASSUME NEW s \in Svcs, NEW f \in Files
      PROVE  Expected(s, f) \in Seq(Nat) /\ Len(Expected(s, f)) <= 1
  <2>1. CASE \E v \in ep[s] : v.hc = "true" /\ f \in Wanted(v)
    <3>1. PICK v \in ep[s] : v = CHOOSE u \in ep[s] : TRUE
      BY <2>1
    <3>2. v.addrs \in Nat
      BY ValueType DEF ConfInit
    <3> QED BY <2>1, <3>1, <3>2 DEF Expected
  <2> QED BY <2>1 DEF Expected
<1>2. file \in Blocks /\ Acceptable
  BY <1>1 DEF ConfInit, Blocks, Acceptable
<1>3. thread \in [Threads -> Locals]
  BY IdleType DEF ConfInit
<1>4. /\ ep \in [Svcs -> Objects] /\ queue \subseteq Svcs /\ events = <<>>
      /\ running = file /\ up = TRUE /\ hup = FALSE /\ changes = 0
  BY DEF ConfInit
<1>5. MaxChanges \in Nat
  BY ConfAssumption
<1>6. changes \in 0..MaxChanges /\ events \in Seq([svc : Svcs, deleted : BOOLEAN])
  BY <1>4, <1>5
<1> QED BY <1>2, <1>3, <1>4, <1>6 DEF ConfTypeOK

-----------------------------------------------------------------------------
\* A thread is through: it is at rest, and its key may be queued again.
LEMMA DoneType ==
    ASSUME ConfTypeOK, NEW t \in Threads, NEW ok \in BOOLEAN, Done(t, ok)
    PROVE  thread' \in [Threads -> Locals] /\ queue' \subseteq Svcs
<1>1. thread[t] \in Locals /\ thread \in [Threads -> Locals] /\ queue \subseteq Svcs
  BY DEF ConfTypeOK
<1>2. thread[t].svc \subseteq Svcs
  BY <1>1 DEF Locals
<1> QED BY <1>1, <1>2, IdleType DEF Done

\* A jump keeps the locals.
LEMMA GotoType ==
    ASSUME ConfTypeOK, NEW t \in Threads, NEW pc \in Places, Goto(t, pc)
    PROVE  thread' \in [Threads -> Locals]
<1>1. thread[t] \in Locals /\ thread \in [Threads -> Locals]
  BY DEF ConfTypeOK
<1>2. [thread[t] EXCEPT !.pc = pc] \in Locals
  BY <1>1 DEF Locals
<1> QED BY <1>1, <1>2 DEF Goto

\* Changes of the cluster and of nginx, and the steps that only pass keys.
LEMMA OutsideType ==
    ASSUME ConfTypeOK,
           \/ \E s \in Svcs, object \in Objects : ep_changes(s, object)
           \/ \E s \in Svcs : Reconcile(s)
           \/ filter_event \/ master_reload \/ nginx_crashes \/ SyncHealthCheck
    PROVE  ConfTypeOK'
<1> USE DEF ConfTypeOK, nginxVars
<1>0. MaxChanges \in Nat
  BY ConfAssumption
<1>1. ASSUME NEW s \in Svcs, NEW object \in Objects, ep_changes(s, object)
      PROVE  ConfTypeOK'
  <2>1. [svc |-> s, deleted |-> object = {}] \in [svc : Svcs, deleted : BOOLEAN]
    OBVIOUS
  <2>2. events' \in Seq([svc : Svcs, deleted : BOOLEAN])
    BY <1>1, <2>1 DEF ep_changes
  <2> QED BY <1>0, <1>1, <2>2 DEF ep_changes
<1>2. ASSUME NEW s \in Svcs, Reconcile(s) PROVE ConfTypeOK'
  <2>1. [Idle EXCEPT !.pc = "del", !.svc = {s}, !.ep = ep[s]] \in Locals
    BY IdleType DEF Locals, Places, Idle
  <2>2. thread' \in [Threads -> Locals]
    BY <1>2, <2>1 DEF Reconcile
  <2> QED BY <1>2, <2>2 DEF Reconcile
<1>3. CASE filter_event
  <2>0. events # <<>> /\ events \in Seq([svc : Svcs, deleted : BOOLEAN])
    BY <1>3 DEF filter_event
  <2>1. /\ Head(events) \in [svc : Svcs, deleted : BOOLEAN]
        /\ Tail(events) \in Seq([svc : Svcs, deleted : BOOLEAN])
    BY <2>0, HeadTailProperties
  <2>2. [Idle EXCEPT !.pc = "del", !.svc = {Head(events).svc}] \in Locals
    BY <2>1, IdleType DEF Locals, Places, Idle
  <2>3. thread' \in [Threads -> Locals] /\ queue' \subseteq Svcs
    BY <1>3, <2>1, <2>2 DEF filter_event
  <2> QED BY <1>3, <2>1, <2>3 DEF filter_event
<1>4. CASE master_reload
  BY <1>4 DEF master_reload
<1>5. CASE nginx_crashes
  <2>1. changes' \in 0..MaxChanges
    BY <1>0, <1>5 DEF nginx_crashes
  <2> QED BY <1>5, <2>1 DEF nginx_crashes
<1>6. CASE SyncHealthCheck
  <2>1. thread' \in [Threads -> Locals]
    BY <1>6, GotoType DEF SyncHealthCheck, Threads, Places
  <2> QED BY <1>6, <2>1 DEF SyncHealthCheck
<1> QED BY <1>1, <1>2, <1>3, <1>4, <1>5, <1>6

\* The steps that drive the nginx binary.
LEMMA NginxType ==
    ASSUME ConfTypeOK, NEW t \in Threads, NginxSteps(t)
    PROVE  ConfTypeOK'
<1>1. thread' \in [Threads -> Locals] /\ queue' \subseteq Svcs
  <2>1. CASE Done(t, TRUE) \/ Done(t, FALSE)
    BY <2>1, DoneType
  <2>2. CASE (Goto(t, "stop") \/ Goto(t, "start")) /\ UNCHANGED queue
    BY <2>2, GotoType DEF Places, ConfTypeOK
  <2> QED BY <2>1, <2>2 DEF NginxSteps, reloadNgx, restartNgx, startNgx
<1> QED BY <1>1 DEF ConfTypeOK, NginxSteps, reloadNgx, restartNgx, startNgx

\* The steps that take the blocks of a service out of the files.
LEMMA DelType ==
    ASSUME ConfTypeOK, NEW t \in Threads, DelSteps(t)
    PROVE  ConfTypeOK'
<1> USE DEF ConfTypeOK, nginxVars
<1>0. thread[t] \in Locals
  OBVIOUS
<1>1. CASE delServerInNginxUpstream(t)
  <2>1. [thread[t] EXCEPT !.pc = "del_write", !.parsed = file,
                          !.todo = {f \in Files : HasBlocks(file[f])}] \in Locals
    BY <1>0 DEF Locals, Places
  <2>2. thread' \in [Threads -> Locals]
    BY <1>1, <2>1 DEF delServerInNginxUpstream
  <2> QED BY <1>1, <2>2 DEF delServerInNginxUpstream
<1>2. CASE del_done(t)
  <2>1. ASSUME NEW pc \in Places
        PROVE  [thread[t] EXCEPT !.parsed = NoBlocks, !.pc = pc] \in Locals
    BY <1>0, IdleType DEF Locals
  <2>2. thread' \in [Threads -> Locals]
    BY <1>2, <2>1 DEF del_done, Places
  <2> QED BY <1>2, <2>2 DEF del_done
<1>3. ASSUME NEW f \in Files, del_write(t, f) PROVE ConfTypeOK'
  <2>1. [thread[t] EXCEPT !.todo = @ \ {f}] \in Locals /\ thread[t].parsed \in Blocks
    BY <1>0 DEF Locals
  <2>2. thread' \in [Threads -> Locals]
    BY <1>3, <2>1 DEF del_write
  <2>3. <<>> \in Seq(Nat)
    OBVIOUS
  <2>4. file' \in Blocks
    BY <1>3, <2>1, <2>3 DEF del_write, Blocks
  <2> QED BY <1>3, <2>2, <2>4 DEF del_write
<1> QED BY <1>1, <1>2, <1>3 DEF DelSteps

\* The steps that put the blocks of a service into the files.
LEMMA AddType ==
    ASSUME ConfTypeOK,
           \/ addServerInNginxUpstream \/ writeNginxUpstream
           \/ \E f \in Files : writeCrossplane(f)
    PROVE  ConfTypeOK'
<1> USE DEF ConfTypeOK, nginxVars
<1> DEFINE w == thread["worker"]
<1>0. w \in Locals /\ w.ep \in Objects /\ w.svc \subseteq Svcs
  BY DEF Locals, Threads
<1>1. CASE addServerInNginxUpstream
  <2>1. PICK v \in w.ep :
          IF AddFails(v) THEN thread' = [thread EXCEPT !["worker"] = Idle]
          ELSE thread' = [thread EXCEPT !["worker"].pc = "parse",
                                        !["worker"].todo = Wanted(v)]
    BY <1>1 DEF addServerInNginxUpstream
  <2>2. [w EXCEPT !.pc = "parse", !.todo = Wanted(v)] \in Locals
    BY <1>0, ValueType DEF Locals, Places
  <2>3. thread' \in [Threads -> Locals]
    BY <2>1, <2>2, IdleType DEF Threads
  <2>4. queue' \subseteq Svcs
    BY <1>0, <1>1 DEF addServerInNginxUpstream
  <2> QED BY <1>1, <2>3, <2>4 DEF addServerInNginxUpstream
<1>2. CASE writeNginxUpstream
  <2>1. /\ [w EXCEPT !.pc = "reload"] \in Locals
        /\ [w EXCEPT !.pc = "write", !.parsed = file] \in Locals
    BY <1>0 DEF Locals, Places
  <2>2. thread' \in [Threads -> Locals]
    BY <1>2, <2>1 DEF writeNginxUpstream
  <2> QED BY <1>2, <2>2 DEF writeNginxUpstream
<1>3. ASSUME NEW f \in Files, writeCrossplane(f) PROVE ConfTypeOK'
  <2>1. [w EXCEPT !.pc = "parse", !.todo = @ \ {f}, !.parsed = NoBlocks] \in Locals
    BY <1>0, IdleType DEF Locals, Places
  <2>2. thread' \in [Threads -> Locals]
    BY <1>3, <2>1 DEF writeCrossplane
  <2>3. PICK s \in w.svc, v \in w.ep :
          file' = [file EXCEPT ![f] = [w.parsed[f] EXCEPT ![s] = Append(@, v.addrs)]]
    BY <1>3 DEF writeCrossplane
  <2>4. w.parsed[f] \in [Svcs -> Seq(Nat)] /\ v.addrs \in Nat
    BY <1>0, ValueType DEF Locals, Blocks
  <2>5. Append(w.parsed[f][s], v.addrs) \in Seq(Nat)
    BY <1>0, <2>4
  <2>6. [w.parsed[f] EXCEPT ![s] = Append(@, v.addrs)] \in [Svcs -> Seq(Nat)]
    BY <2>4, <2>5
  <2>7. file' \in Blocks
    BY <2>3, <2>6 DEF Blocks
  <2> QED BY <1>3, <2>2, <2>7 DEF writeCrossplane
<1> QED BY <1>1, <1>2, <1>3

\* Every step keeps the types.
LEMMA NextType == ConfTypeOK /\ [ConfNext]_cvars => ConfTypeOK'
<1> SUFFICES ASSUME ConfTypeOK, [ConfNext]_cvars PROVE ConfTypeOK'
  OBVIOUS
<1>1. CASE UNCHANGED cvars
  BY <1>1 DEF ConfTypeOK, cvars
<1>2. CASE WorkerSteps
  BY <1>2, DelType, AddType, NginxType DEF WorkerSteps, Threads
<1>3. CASE FilterSteps
  BY <1>3, DelType, OutsideType, NginxType DEF FilterSteps, Threads
<1>4. CASE PollSteps
  BY <1>4, OutsideType, NginxType DEF PollSteps, Threads
<1> QED BY <1>1, <1>2, <1>3, <1>4, OutsideType DEF ConfNext

\* Every variable keeps its type: in particular only blocks of services with
\* addresses of their Endpoints ever get into a file or into nginx.
THEOREM ConfTypeCorrect == ConfSpec => []ConfTypeOK
BY InitType, NextType, PTL DEF ConfSpec

-----------------------------------------------------------------------------
\* Outside of its passes over the files the worker relies on nothing.
LEMMA WorkerAtRest ==
    ASSUME AloneInv, UNCHANGED file,
           thread'["filter"] = thread["filter"], thread'["poll"] = thread["poll"],
           thread'["worker"].pc \in {"idle", "del", "reload", "stop", "start"}
    PROVE  AloneFacts'
BY DEF AloneInv, AloneFacts, Acceptable, WorkerInv

\* What the other threads do concerns neither the files nor the worker.
LEMMA OthersAlone ==
    ASSUME AloneInv, NoneDeleted,
           \/ \E s \in Svcs, object \in Objects : ep_changes(s, object)
           \/ FilterSteps \/ PollSteps \/ master_reload \/ nginx_crashes
    PROVE  AloneFacts'
<1>0. /\ thread \in [Threads -> Locals] /\ thread["filter"].pc = "idle"
      /\ events \in Seq([svc : Svcs, deleted : BOOLEAN])
  BY DEF AloneInv, ConfTypeOK, AloneFacts
<1>1. ASSUME UNCHANGED <<file, thread>> PROVE AloneFacts'
  BY <1>1 DEF AloneInv, AloneFacts, Acceptable, WorkerInv
<1>2. CASE FilterSteps
  <2>1. filter_event
    BY <1>0, <1>2 DEF FilterSteps, DelSteps, NginxSteps, delServerInNginxUpstream,
                      del_done, del_write, reloadNgx, restartNgx, startNgx
  <2>2. 1 \in DOMAIN events /\ Head(events) = events[1]
    BY <1>0, <2>1 DEF filter_event
  <2>3. UNCHANGED <<file, thread>>
    BY <2>1, <2>2 DEF filter_event, NoneDeleted
  <2> QED BY <1>1, <2>3
<1>3. CASE PollSteps
  <2>1. \E l \in Locals : /\ l.pc \in {"idle", "reload", "stop", "start"}
                         /\ thread' = [thread EXCEPT !["poll"] = l]
    <3>1. ASSUME NEW p \in {"reload", "stop", "start"}, Goto("poll", p)
          PROVE  <2>1!:
      <4>1. [thread["poll"] EXCEPT !.pc = p] \in Locals
        BY <1>0 DEF Locals, Threads, Places
      <4> QED BY <3>1, <4>1 DEF Goto, Locals
    <3>2. ASSUME NEW ok \in BOOLEAN, Done("poll", ok) PROVE <2>1!:
      BY <3>2, IdleType DEF Done, Idle
    <3> QED BY <1>3, <3>1, <3>2 DEF PollSteps, SyncHealthCheck, NginxSteps,
                                    reloadNgx, restartNgx, startNgx
  <2>2. UNCHANGED file
    BY <1>3 DEF PollSteps, SyncHealthCheck, NginxSteps, reloadNgx, restartNgx, startNgx
  <2>3. /\ thread'["filter"] = thread["filter"] /\ thread'["worker"] = thread["worker"]
        /\ thread'["poll"].pc \in {"idle", "reload", "stop", "start"}
    BY <1>0, <2>1 DEF Threads
  <2> QED BY <2>2, <2>3 DEF AloneInv, AloneFacts, Acceptable, WorkerInv
<1> QED BY <1>1, <1>2, <1>3 DEF ep_changes, master_reload, nginx_crashes

\* Reconcile starts, or drives nginx after the files are written.
LEMMA DriveAlone ==
    ASSUME AloneInv, NginxSteps("worker") \/ \E s \in Svcs : Reconcile(s)
    PROVE  AloneFacts'
<1>0. thread \in [Threads -> Locals]
  BY DEF AloneInv, ConfTypeOK
<1>1. UNCHANGED file
  BY DEF NginxSteps, reloadNgx, restartNgx, startNgx, Reconcile
<1>2. /\ thread'["filter"] = thread["filter"] /\ thread'["poll"] = thread["poll"]
      /\ thread'["worker"].pc \in {"idle", "del", "reload", "stop", "start"}
  <2>1. ASSUME NEW p \in {"stop", "start"}, Goto("worker", p) PROVE <1>2!:
    BY <1>0, <2>1 DEF Goto, Threads, Locals
  <2>2. ASSUME NEW ok \in BOOLEAN, Done("worker", ok) PROVE <1>2!:
    BY <1>0, <2>2 DEF Done, Idle, Threads
  <2>3. ASSUME NEW s \in Svcs, Reconcile(s) PROVE <1>2!:
    <3>1. \/ UNCHANGED thread /\ thread["worker"].pc = "idle"
          \/ \E l : l.pc = "del" /\ thread' = [thread EXCEPT !["worker"] = l]
      BY <2>3 DEF Reconcile, Idle
    <3> QED BY <1>0, <3>1 DEF Threads
  <2> QED BY <2>1, <2>2, <2>3 DEF NginxSteps, reloadNgx, restartNgx, startNgx
<1> QED BY <1>1, <1>2, WorkerAtRest

\* Taking the blocks out: a file that is still to be written is as it was
\* parsed, and every other one has no block of the service.
LEMMA DelAlone ==
    ASSUME AloneInv, DelSteps("worker")
    PROVE  AloneFacts'
<1> DEFINE w == thread["worker"]
<1>0. /\ thread \in [Threads -> Locals] /\ w \in Locals /\ file \in Blocks
      /\ w.svc \subseteq Svcs /\ w.parsed \in Blocks
  BY DEF AloneInv, ConfTypeOK, Locals, Threads
<1> SUFFICES Acceptable' /\ WorkerInv(thread["worker"])'
  BY <1>0 DEF AloneInv, AloneFacts, DelSteps, delServerInNginxUpstream, del_done,
              del_write, Threads
<1>1. CASE delServerInNginxUpstream("worker")
  <2>1. /\ UNCHANGED file
        /\ thread'["worker"] = [w EXCEPT !.pc = "del_write", !.parsed = file,
                                         !.todo = {f \in Files : HasBlocks(file[f])}]
    BY <1>0, <1>1 DEF delServerInNginxUpstream, Threads
  <2>2. \A f \in Files : ~HasBlocks(file[f]) => \A s \in w.svc : file[f][s] = <<>>
    BY <1>0 DEF HasBlocks
  <2> QED BY <1>0, <2>1, <2>2 DEF WorkerInv, AloneInv, AloneFacts, Acceptable, Locals
<1>2. CASE del_done("worker")
  <2>1. /\ UNCHANGED file /\ w.pc = "del_write" /\ w.todo = {}
        /\ thread'["worker"].svc = w.svc /\ thread'["worker"].pc \in {"add", "reload"}
    BY <1>0, <1>2 DEF del_done, Threads, Locals
  <2> QED BY <2>1 DEF WorkerInv, AloneInv, AloneFacts, Acceptable
<1>3. ASSUME NEW f \in Files, del_write("worker", f)
      PROVE  Acceptable' /\ WorkerInv(thread["worker"])'
  <2>1. /\ w.pc = "del_write" /\ f \in w.todo
        /\ thread'["worker"] = [w EXCEPT !.todo = @ \ {f}]
        /\ file' = [file EXCEPT ![f] = [s \in Svcs |->
                       IF s \in w.svc THEN <<>> ELSE w.parsed[f][s]]]
    BY <1>0, <1>3 DEF del_write, Threads
  <2>2. /\ thread'["worker"].pc = "del_write" /\ thread'["worker"].svc = w.svc
        /\ thread'["worker"].todo = w.todo \ {f} /\ thread'["worker"].parsed = w.parsed
    BY <1>0, <2>1 DEF Locals
  <2>3. /\ \A g \in Files : g # f => file'[g] = file[g]
        /\ \A s \in Svcs : file'[f][s] = IF s \in w.svc THEN <<>> ELSE file[f][s]
    BY <1>0, <2>1 DEF Blocks, AloneInv, AloneFacts, WorkerInv
  <2>4. Acceptable'
    BY <2>3 DEF Acceptable, AloneInv, AloneFacts
  <2>5. WorkerInv(thread["worker"])'
    BY <1>0, <2>1, <2>2, <2>3 DEF WorkerInv, AloneInv, AloneFacts
  <2> QED BY <2>4, <2>5
<1> QED BY <1>1, <1>2, <1>3 DEF DelSteps

\* Putting the blocks in: each file that is still to be written has none of
\* the service, so that the one appended is the only one.
LEMMA AddAlone ==
    ASSUME AloneInv,
           \/ addServerInNginxUpstream \/ writeNginxUpstream
           \/ \E f \in Files : writeCrossplane(f)
    PROVE  AloneFacts'
<1> DEFINE w == thread["worker"]
<1>0. /\ thread \in [Threads -> Locals] /\ w \in Locals /\ file \in Blocks
      /\ w.svc \subseteq Svcs /\ w.ep \in Objects /\ w.todo \subseteq Files
  BY DEF AloneInv, ConfTypeOK, Locals, Threads
<1> SUFFICES Acceptable' /\ WorkerInv(thread["worker"])'
  BY <1>0 DEF AloneInv, AloneFacts, addServerInNginxUpstream, writeNginxUpstream,
              writeCrossplane, Threads
<1>1. CASE addServerInNginxUpstream
  <2>1. PICK v \in w.ep :
          IF AddFails(v) THEN thread' = [thread EXCEPT !["worker"] = Idle]
          ELSE thread' = [thread EXCEPT !["worker"].pc = "parse",
                                        !["worker"].todo = Wanted(v)]
    BY <1>1 DEF addServerInNginxUpstream
  <2>2. Wanted(v) \subseteq Files
    BY <1>0, ValueType
  <2>3. \/ thread'["worker"].pc = "idle"
        \/ /\ thread'["worker"].pc = "parse" /\ thread'["worker"].svc = w.svc
           /\ thread'["worker"].todo \subseteq Files
    BY <1>0, <2>1, <2>2 DEF Threads, Locals, Idle
  <2>4. UNCHANGED file /\ w.pc = "add"
    BY <1>1 DEF addServerInNginxUpstream
  <2> QED BY <2>3, <2>4 DEF WorkerInv, AloneInv, AloneFacts, Acceptable
<1>2. CASE writeNginxUpstream
  <2>1. /\ UNCHANGED file /\ w.pc = "parse"
        /\ thread'["worker"].svc = w.svc /\ thread'["worker"].todo = w.todo
        /\ \/ thread'["worker"].pc = "reload"
           \/ thread'["worker"].pc = "write" /\ thread'["worker"].parsed = file
    BY <1>0, <1>2 DEF writeNginxUpstream, Threads, Locals
  <2> QED BY <2>1 DEF WorkerInv, AloneInv, AloneFacts, Acceptable
<1>3. ASSUME NEW f \in Files, writeCrossplane(f)
      PROVE  Acceptable' /\ WorkerInv(thread["worker"])'
  <2>1. /\ w.pc = "write" /\ f \in w.todo /\ w.parsed = file
        /\ \A s \in w.svc, g \in w.todo : file[g][s] = <<>>
    <3>1. w.pc = "write" /\ f \in w.todo
      BY <1>3 DEF writeCrossplane
    <3> QED BY <3>1 DEF AloneInv, AloneFacts, WorkerInv
  <2>2. PICK s \in w.svc, v \in w.ep :
          file' = [file EXCEPT ![f] = [file[f] EXCEPT ![s] = Append(@, v.addrs)]]
    BY <1>3, <2>1 DEF writeCrossplane
  <2>3. /\ thread'["worker"].pc = "parse" /\ thread'["worker"].svc = w.svc
        /\ thread'["worker"].todo = w.todo \ {f}
    BY <1>0, <1>3 DEF writeCrossplane, Threads, Locals
  <2>4. /\ \A g \in Files : g # f => file'[g] = file[g]
        /\ \A r \in Svcs : r # s => file'[f][r] = file[f][r]
        /\ file'[f][s] = Append(<<>>, v.addrs)
    <3>1. file[f] \in [Svcs -> Seq(Nat)] /\ s \in Svcs /\ file[f][s] = <<>>
      BY <1>0, <2>1 DEF Blocks
    <3>2. file'[f] = [file[f] EXCEPT ![s] = Append(<<>>, v.addrs)]
      BY <1>0, <2>2, <3>1 DEF Blocks
    <3> QED BY <1>0, <2>2, <3>1, <3>2 DEF Blocks
  <2>5. Len(file'[f][s]) = 1
    BY <2>4
  <2>6. \A g \in Files, r \in Svcs : Len(file'[g][r]) = 1 \/ file'[g][r] = file[g][r]
    BY <2>4, <2>5
  <2>7. Acceptable'
    <3>1. \A g \in Files, r \in Svcs : Len(file[g][r]) <= 1
      BY DEF Acceptable, AloneInv, AloneFacts
    <3>2. ASSUME NEW g \in Files, NEW r \in Svcs PROVE Len(file'[g][r]) <= 1
      <4>1. CASE Len(file'[g][r]) = 1
        BY <4>1
      <4>2. CASE file'[g][r] = file[g][r]
        BY <3>1, <4>2
      <4> QED BY <2>6, <4>1, <4>2
    <3> QED BY <3>2 DEF Acceptable
  <2> QED BY <1>0, <2>1, <2>3, <2>4, <2>7 DEF WorkerInv
<1> QED BY <1>1, <1>2, <1>3

\* Every step keeps the invariant as long as no deletion comes to the filter.
LEMMA AloneStep == AloneInv /\ NoneDeleted /\ [ConfNext]_cvars => AloneInv'
<1> SUFFICES ASSUME AloneInv, NoneDeleted, [ConfNext]_cvars PROVE AloneFacts'
  BY NextType DEF AloneInv
<1>1. CASE UNCHANGED cvars
  BY <1>1 DEF cvars, AloneInv, AloneFacts, Acceptable, WorkerInv
<1>2. CASE WorkerSteps
  BY <1>2, DelAlone, AddAlone, DriveAlone DEF WorkerSteps
<1> QED BY <1>1, <1>2, OthersAlone, DriveAlone DEF ConfNext

\* While no Endpoints is deleted the upstream files never define an upstream
\* twice, however the changes of the Endpoints, the failures of
\* addServerInNginxUpstream and the reloads of the three threads interleave.
THEOREM UpstreamsStaySingle == ConfSpec => NoUpstreamTwice
<1>1. ConfInit => AloneInv
  <2> SUFFICES ASSUME ConfInit PROVE AloneInv
    OBVIOUS
  <2>1. \A t \in Threads : thread[t].pc = "idle"
    BY DEF ConfInit, Idle
  <2> QED BY <2>1, InitType DEF AloneInv, AloneFacts, WorkerInv, Threads
<1>2. AloneInv => Acceptable
  BY DEF AloneInv, AloneFacts
<1>3. WithoutDeletions <=> []NoneDeleted
  BY PTL DEF WithoutDeletions, NoneDeleted
<1> QED BY <1>1, <1>2, <1>3, AloneStep, PTL DEF ConfSpec, NoUpstreamTwice
=============================================================================
