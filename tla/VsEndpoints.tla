---------------------------- MODULE VsEndpoints ----------------------------
(***************************************************************************)
(* How the Endpoints object of a service comes to list its pods            *)
(* (controllers/lbhc).  A pod belongs to the service by a label.  Three    *)
(* threads of the controller read the Endpoints, change a copy and send it *)
(* back:                                                                   *)
(*   - "pod": the event filter on pods, one event after the other;         *)
(*   - "svc": the event filter on the service;                             *)
(*   - "worker": Reconcile of a key of the work queue, a pod's or the one  *)
(*     that the service and its Endpoints share.                           *)
(* What the filters fail to do is only logged; a key whose Reconcile fails *)
(* is queued again.  Meanwhile the health checks, or the controller of     *)
(* another node, move addresses between the two lists of the Endpoints.    *)
(*                                                                         *)
(* A pod stands for its address; each list of addresses says how often it  *)
(* has each of them, whatever the order.  An Update is refused when the    *)
(* copy is not of the current version; the copy made for an Endpoints that *)
(* was not found has no version and replaces whatever is there by then.    *)
(***************************************************************************)
EXTENDS Naturals, Sequences, FiniteSets

CONSTANTS
  Pods,        \* pods that carry, or may carry, the label of the service
  Svc,         \* the key of the service and of its Endpoints
  MaxChanges,  \* bound: changes of pods and service, moves of addresses
  MaxRestarts  \* bound: restarts of the controller

ASSUME VsAssumption ==
  /\ IsFiniteSet(Pods) /\ Svc \notin Pods
  /\ MaxChanges \in Nat /\ MaxRestarts \in Nat

VARIABLES
  pod,        \* the pods: phase and label
  svc,        \* the label hc_enabled of the service; "none" when there is none
  ep,         \* the Endpoints
  podEvents,  \* events of pods that the filter has not handled, in order
  svcEvents,  \* events of the service, in order
  epEvent,    \* an event of the Endpoints is on its way
  queue,      \* the work queue
  thread,     \* place and locals of the three threads
  changes, restarts

server == <<pod, svc, ep>>
events == <<podEvents, svcEvents, epEvent>>
counts == <<changes, restarts>>
evars == <<server, events, queue, thread, counts>>

Threads == {"pod", "svc", "worker"}
NoPod == [phase |-> "none", vs |-> FALSE]
Empty == [p \in Pods |-> 0]
NoEp == [exists |-> FALSE, ready |-> Empty, notReady |-> Empty, hc |-> "none"]
NewEp(hc) == [NoEp EXCEPT !.exists = TRUE, !.hc = hc]

\* pods: the pod at hand; todo: pods still to come; svc: the service as the caller
\* has it; keys: what is queued at the end; copy: the Endpoints read and changed.
Idle == [pc |-> "idle", pods |-> {}, todo |-> {}, svc |-> "none", keys |-> {},
         copy |-> NoEp, current |-> FALSE]

\* The pod runs, has an address and carries the label.
Wanted(p) == p.phase = "running" /\ p.vs
Times(e, p) == e.ready[p] + e.notReady[p]
Listed(p) == Times(ep, p) > 0

PodEvent(p, old, new) == [pod |-> p, old |-> old, new |-> new]
SvcEvent(old, new) == [old |-> old, new |-> new]

Order(S) == CHOOSE s \in [1 .. Cardinality(S) -> S] :
              \A i, j \in DOMAIN s : s[i] = s[j] => i = j

\* A controller that starts fills its caches, and then sees a Create event for
\* every object; such an event has the object as its old value too.
Seen(pods) == LET all == Order({p \in Pods : pods[p] # NoPod})
              IN [i \in DOMAIN all |-> PodEvent(all[i], pods[all[i]], pods[all[i]])]
SvcSeen(s) == IF s = "none" THEN <<>> ELSE <<SvcEvent(s, s)>>
Creates(e, nothing) == e.old \in {nothing, e.new}

-----------------------------------------------------------------------------
VsInit ==
  /\ pod \in [Pods -> {[phase |-> "pending", vs |-> TRUE], [phase |-> "running", vs |-> TRUE]}]
  /\ svc \in {"none", "true"}
  /\ \/ ep = NoEp
     \/ /\ svc # "none"
        /\ \E listed \in SUBSET {p \in Pods : Wanted(pod[p])} :
             ep = [NewEp(svc) EXCEPT !.ready = [p \in Pods |-> IF p \in listed THEN 1 ELSE 0]]
  /\ podEvents = Seen(pod)
  /\ svcEvents = SvcSeen(svc)
  /\ epEvent = ep.exists
  /\ queue = {} /\ thread = [t \in Threads |-> Idle]
  /\ changes = 0 /\ restarts = 0

Change == changes < MaxChanges /\ changes' = changes + 1 /\ UNCHANGED restarts

\* What the cluster does to a pod: it is created, started, labelled or not any
\* more, and deleted.
PodMoves(v) ==
  CASE v = NoPod -> {[phase |-> "pending", vs |-> TRUE]}
    [] v.phase = "pending" -> {[v EXCEPT !.phase = "running"], NoPod}
    [] OTHER -> {[v EXCEPT !.vs = ~@], NoPod}

pod_changes(p) ==
  /\ Change
  /\ \E new \in PodMoves(pod[p]) :
       /\ pod' = [pod EXCEPT ![p] = new]
       /\ podEvents' = Append(podEvents, PodEvent(p, pod[p], new))
  /\ UNCHANGED <<svc, ep, svcEvents, epEvent, queue, thread>>

svc_changes ==
  /\ Change
  /\ svc' = CASE svc = "true" -> "false" [] OTHER -> "true"
  /\ svcEvents' = Append(svcEvents, SvcEvent(svc, svc'))
  /\ UNCHANGED <<pod, ep, podEvents, epEvent, queue, thread>>

-----------------------------------------------------------------------------
\* The Endpoints get a new content: copies of another version are out of date,
\* and an event tells the filter, which queues the key.
NewContent(new, threads) ==
  /\ ep' = new
  /\ epEvent' = (epEvent \/ new # ep)
  /\ thread' = [t \in Threads |->
                  IF new # ep THEN [threads[t] EXCEPT !.current = FALSE] ELSE threads[t]]

\* modifyEpInNotReadyAddressList and modifyEpInAddressList, as one step.
modify_ep(p) ==
  /\ Change /\ Listed(p)
  /\ NewContent(IF ep.ready[p] > 0
                THEN [ep EXCEPT !.ready[p] = 0, !.notReady[p] = Times(ep, p)]
                ELSE [ep EXCEPT !.notReady[p] = 0, !.ready[p] = Times(ep, p)],
                thread)
  /\ UNCHANGED <<pod, svc, podEvents, svcEvents, queue>>

\* The filter on Endpoints lets the key pass.
ep_event ==
  /\ epEvent /\ epEvent' = FALSE
  /\ queue' = queue \cup {Svc}
  /\ UNCHANGED <<server, podEvents, svcEvents, thread, counts>>

-----------------------------------------------------------------------------
(***************************************************************************)
(* How the threads go on after a call that succeeds or fails.              *)
(***************************************************************************)
Become(t, local) == thread' = [thread EXCEPT ![t] = local]

\* Variant with a bug: the worker forgets a key after an error.
Returned_forgotten(t, ok) ==
  LET local == thread[t]
  IN CASE t = "worker" -> [local |-> Idle, keys |-> {}]
       [] t = "pod" -> [local |-> Idle, keys |-> local.keys]
       [] t = "svc" -> [local |-> IF ok THEN [local EXCEPT !.pc = "svc", !.copy = NoEp,
                                                           !.current = FALSE]
                                  ELSE Idle,
                        keys |-> {}]

\* The worker queues its key again after an error, the filter on pods does what
\* it does anyway, the filter on services drops its key after an error.
Returned(t, ok) ==
  LET local == thread[t]
  IN CASE t = "worker" -> [local |-> Idle, keys |-> IF ok THEN {} ELSE local.keys]
       [] t = "pod" -> [local |-> Idle, keys |-> local.keys]
       [] t = "svc" -> [local |-> IF ok THEN [local EXCEPT !.pc = "svc", !.copy = NoEp,
                                                           !.current = FALSE]
                                  ELSE Idle,
                        keys |-> {}]

Return(t, ok) ==
  /\ Become(t, Returned(t, ok).local)
  /\ queue' = queue \cup Returned(t, ok).keys

\* An Update is to be sent.
Send(t, local, copy) ==
  Become(t, [local EXCEPT !.pc = "update", !.copy = copy, !.current = ep.exists])

\* Variant with a bug: the version is not compared.
Accepted_any(t) == TRUE

\* The API server takes a copy of the current version, or one without version.
Fresh(t) == thread[t].pc = "update" /\ ~thread[t].copy.exists
Accepted(t) ==
  thread[t].current \/ Fresh(t)

Update(t) ==
  /\ thread[t].pc = "update"
  /\ LET ok == Accepted(t)
         back == Returned(t, ok)
         after == [thread EXCEPT ![t] = back.local]
     IN /\ queue' = queue \cup back.keys
        /\ IF ok
           THEN NewContent([thread[t].copy EXCEPT !.exists = TRUE], after)
           ELSE thread' = after /\ UNCHANGED <<ep, epEvent>>
  /\ UNCHANGED <<pod, svc, podEvents, svcEvents, counts>>

\* Variant with a bug: a listed address is not looked for.
_createEp_again(t, p, local) ==
  /\ Send(t, local, [(IF ep.exists THEN ep ELSE [NoEp EXCEPT !.hc = local.svc])
                     EXCEPT !.ready[p] = @ + 1])
  /\ UNCHANGED queue

\* _createEp: an address that is listed already is an error; an Endpoints that is
\* not found will be made from the service.
_createEp(t, p, local) ==
  IF Listed(p)
  THEN Return(t, FALSE)
  ELSE /\ Send(t, local,
               [(IF ep.exists THEN ep ELSE [NoEp EXCEPT !.hc = local.svc])
                EXCEPT !.ready[p] = @ + 1])
       /\ UNCHANGED queue

createEpInfo(t) ==
  /\ thread[t].pc = "create"
  /\ \E p \in thread[t].pods : _createEp(t, p, thread[t])
  /\ UNCHANGED <<server, events, counts>>

-----------------------------------------------------------------------------
(***************************************************************************)
(* The event filter on pods.                                               *)
(***************************************************************************)
\* The filter calls what is at pc for the pod, and queues keys afterwards.
Call(pc, p, s, keys) ==
  /\ Become("pod", [Idle EXCEPT !.pc = pc, !.pods = {p}, !.svc = s, !.keys = keys])
  /\ UNCHANGED queue

Enqueue(keys) == queue' = queue \cup keys /\ UNCHANGED thread

\* A Create event adds the address itself; it lets the key pass only when the
\* service is not found.
pod_created(e) ==
  IF ~Wanted(e.new) THEN Enqueue({})
  ELSE IF svc = "none" THEN Enqueue({e.pod}) ELSE Call("create", e.pod, svc, {})

pod_deleted(e) ==
  IF Wanted(e.old) THEN Call("delete", e.pod, "none", {}) ELSE Enqueue({})

\* syncEndpointsWithPodLabel: the address goes when the label has gone.
syncEndpointsWithPodLabel(e) ==
  IF Wanted(e.old) /\ ~e.new.vs THEN Call("delete", e.pod, "none", {e.pod})
  ELSE Enqueue({e.pod})

pod_updated(e) ==
  IF e.new.phase = "running" THEN syncEndpointsWithPodLabel(e) ELSE Enqueue({})

pod_event ==
  /\ thread["pod"].pc = "idle" /\ podEvents # <<>>
  /\ podEvents' = Tail(podEvents)
  /\ LET e == Head(podEvents)
     IN CASE Creates(e, NoPod) -> pod_created(e)
          [] e.new = NoPod -> pod_deleted(e)
          [] OTHER -> pod_updated(e)
  /\ UNCHANGED <<server, svcEvents, epEvent, counts>>

\* deleteEp: the address is taken out of the first list it is found in.
deleteEp ==
  /\ thread["pod"].pc = "delete"
  /\ \E p \in thread["pod"].pods :
       IF Listed(p)
       THEN /\ Send("pod", thread["pod"],
                    IF ep.ready[p] > 0 THEN [ep EXCEPT !.ready[p] = 0]
                                       ELSE [ep EXCEPT !.notReady[p] = 0])
            /\ UNCHANGED queue
       ELSE Return("pod", TRUE)
  /\ UNCHANGED <<server, events, counts>>

(***************************************************************************)
(* The event filter on services.                                           *)
(***************************************************************************)
\* Variant with a bug: an update of the service is not let pass.
svc_event_update_lost ==
  /\ thread["svc"].pc = "idle" /\ svcEvents # <<>>
  /\ svcEvents' = Tail(svcEvents)
  /\ LET e == Head(svcEvents)
     IN IF Creates(e, "none")
        THEN Become("svc", [Idle EXCEPT !.pc = "svc", !.svc = e.new,
                   !.todo = {[pod |-> p, runs |-> Wanted(pod[p])] :
                             p \in {q \in Pods : pod[q].vs}}])
        ELSE UNCHANGED thread
  /\ UNCHANGED <<server, podEvents, epEvent, queue, counts>>

svc_event ==
  /\ thread["svc"].pc = "idle" /\ svcEvents # <<>>
  /\ svcEvents' = Tail(svcEvents)
  /\ LET e == Head(svcEvents)
     IN IF Creates(e, "none")
        THEN /\ Become("svc", [Idle EXCEPT !.pc = "svc", !.svc = e.new,
                   !.todo = {[pod |-> p, runs |-> Wanted(pod[p])] :
                             p \in {q \in Pods : pod[q].vs}}])
             /\ UNCHANGED queue
        ELSE queue' = queue \cup {Svc} /\ UNCHANGED thread
  /\ UNCHANGED <<server, podEvents, epEvent, counts>>

\* An Endpoints is made if there is none.
createEpBaseSvcWithoutAddress(rest) ==
  /\ IF ep.exists THEN Become("svc", rest)
     ELSE Send("svc", rest, [NoEp EXCEPT !.hc = rest.svc])
  /\ UNCHANGED queue

\* createEpBaseSvc goes through the pods it has listed: createEpInfo for one that
\* runs, createEpBaseSvcWithoutAddress for another.  The key is queued at the end.
createEpBaseSvc ==
  /\ thread["svc"].pc = "svc"
  /\ LET local == thread["svc"]
     IN \/ /\ local.todo = {}
           /\ Become("svc", Idle) /\ queue' = queue \cup {Svc}
        \/ \E item \in local.todo :
             LET rest == [local EXCEPT !.todo = @ \ {item}]
             IN IF item.runs THEN _createEp("svc", item.pod, rest)
                             ELSE createEpBaseSvcWithoutAddress(rest)
  /\ UNCHANGED <<server, events, counts>>

-----------------------------------------------------------------------------
(***************************************************************************)
(* Reconcile.  It reads objects from the informers' caches, which may be   *)
(* ahead of the events the filters have handled.                           *)
(***************************************************************************)
Cached(pending, now) ==
  IF pending = <<>> THEN {now}
  ELSE {Head(pending).old} \cup {pending[i].new : i \in DOMAIN pending}

EventsOf(p) == SelectSeq(podEvents, LAMBDA e : e.pod = p)

\* addServerInNginxUpstream fails for want of an address.
AddFails == ep.exists /\ ep.hc = "true" /\ \A p \in Pods : ~Listed(p)

\* The key of the service: first what concerns nginx, which may fail, then the
\* service itself.
ReconcileSvc ==
  /\ thread["worker"].pc = "idle" /\ Svc \in queue
  /\ ~AddFails
  /\ queue' = queue \ {Svc}
  /\ \E s \in Cached(svcEvents, svc) :
       thread' = IF s = "none" THEN thread
                 ELSE [thread EXCEPT !["worker"] = [Idle EXCEPT !.pc = "label", !.svc = s,
                                                                !.keys = {Svc}]]
  /\ UNCHANGED <<server, events, counts>>

\* syncSvcLabelToEp.
syncSvcLabelToEp ==
  /\ thread["worker"].pc = "label"
  /\ LET local == thread["worker"]
     IN Send("worker", local, [(IF ep.exists THEN ep ELSE NoEp) EXCEPT !.hc = local.svc])
  /\ UNCHANGED <<server, events, queue, counts>>

ReconcilePod(p) ==
  /\ thread["worker"].pc = "idle" /\ p \in queue
  /\ queue' = queue \ {p}
  /\ \E v \in Cached(EventsOf(p), pod[p]) :
       thread' = IF ~v.vs THEN thread
                 ELSE [thread EXCEPT !["worker"] = [Idle EXCEPT !.pc = "pod", !.keys = {p},
                         !.pods = IF v.phase = "running" THEN {p} ELSE {}]]
  /\ UNCHANGED <<server, events, counts>>

\* _updateEp: an address that is listed is sent back as it is, any other is to be
\* created; a pod without address is not.
_updateEp(pods) ==
  CASE \E p \in pods : Listed(p) ->
         Send("worker", thread["worker"], ep) /\ UNCHANGED queue
    [] pods # {} /\ svc # "none" /\ \A p \in pods : ~Listed(p) ->
         /\ Become("worker", [thread["worker"] EXCEPT !.pc = "create", !.svc = svc])
         /\ UNCHANGED queue
    [] OTHER -> Return("worker", svc # "none")

\* updateEpInfo: an Endpoints without addresses takes the same course, since no
\* address is found in it.
updateEpInfo ==
  /\ thread["worker"].pc = "pod"
  /\ IF ep.exists THEN _updateEp(thread["worker"].pods) ELSE Return("worker", FALSE)
  /\ UNCHANGED <<server, events, counts>>

\* The controller is restarted: what it had in memory is lost.
restart ==
  /\ restarts < MaxRestarts /\ restarts' = restarts + 1
  /\ thread' = [t \in Threads |-> Idle] /\ queue' = {}
  /\ podEvents' = Seen(pod)
  /\ svcEvents' = SvcSeen(svc)
  /\ epEvent' = ep.exists
  /\ UNCHANGED <<server, changes>>

-----------------------------------------------------------------------------
PodThread == pod_event \/ deleteEp \/ createEpInfo("pod") \/ Update("pod")
SvcThread == svc_event \/ createEpBaseSvc \/ Update("svc")
Worker == updateEpInfo \/ syncSvcLabelToEp \/ createEpInfo("worker") \/ Update("worker")
Take(k) == IF k = Svc THEN ReconcileSvc ELSE ReconcilePod(k)

VsNext ==
  \/ \E p \in Pods : pod_changes(p) \/ modify_ep(p)
  \/ svc_changes
  \/ ep_event
  \/ PodThread \/ SvcThread \/ Worker
  \/ \E k \in Pods \cup {Svc} : Take(k)
  \/ restart

VsSpec == VsInit /\ [][VsNext]_evars

\* Events are delivered and handled, the threads go on, and the work queue is
\* served in order, so that no key waits for ever behind another.
VsFairSpec ==
  /\ VsSpec
  /\ WF_evars(ep_event) /\ WF_evars(PodThread) /\ WF_evars(SvcThread) /\ WF_evars(Worker)
  /\ \A k \in Pods \cup {Svc} : SF_evars(Take(k))

-----------------------------------------------------------------------------
\* No address is ever listed twice, though three threads add addresses, each
\* after its own look at the lists, and others move them between the lists.
NoAddressTwice == \A p \in Pods : Times(ep, p) <= 1

\* The removal of p's address that the filter on pods has decided on.
Removes(p) == thread["pod"].pc = "update" /\ thread["pod"].pods = {p}

\* An address disappears only when the deleteEp of its own pod is taken by the
\* server, whatever the other threads write in between; or when a thread creates
\* the Endpoints that it did not find when it looked.
NoAddressLost ==
  [][\A p \in Pods : Listed(p) /\ ~Listed(p)' =>
       \/ Removes(p) /\ ~Removes(p)'
       \/ \E t \in Threads : Fresh(t) /\ ~Fresh(t)']_evars

\* The cluster as it has to stay for a pod to be listed: the pod runs with its
\* label, the service and the Endpoints exist, and the controller is not
\* restarted any more.
Lasting(p) ==
  /\ Wanted(pod[p]) /\ svc # "none" /\ restarts = MaxRestarts
  /\ ep.exists /\ \A t \in Threads : ~Fresh(t)

\* A pod whose key the event filter has queued ends up in the Endpoints for good,
\* whatever conflicts Reconcile meets and whichever events of the pod are still
\* to be handled.
QueuedPodListed ==
  \A p \in Pods : [](p \in queue /\ []Lasting(p) => <>[]Listed(p))

\* "Move the current state of the cluster closer to the desired state": the labels
\* of the service end up on the Endpoints, as long as nginx does not refuse the
\* Endpoints for want of an address.
LabelsFollow ==
  \A l \in {"true", "false"} :
    <>[](svc = l) /\ <>[]~AddFails => <>[](ep.exists /\ ep.hc = l)
=============================================================================
