------------------------- MODULE VsEndpoints_proofs -------------------------
(***************************************************************************)
(* The Endpoints list no address twice and lose none to another thread,    *)
(* for every set of pods, every sequence of changes and every restart.     *)
(*                                                                         *)
(* Every write replaces the whole object by the writer's copy, so both     *)
(* arguments are about the copies: none has an address twice, and one that *)
(* still is of the server's version has every address the server has, but  *)
(* for the one that its thread removes.                                    *)
(***************************************************************************)
EXTENDS VsEndpoints, FiniteSetTheorems, SequenceTheorems, TLAPS

Labels == {"none", "true", "false"}
Places == {"idle", "create", "delete", "svc", "label", "pod", "update"}
Values == [phase : {"none", "pending", "running"}, vs : BOOLEAN]
Copies == [exists : BOOLEAN, ready : [Pods -> Nat], notReady : [Pods -> Nat], hc : Labels]
Locals == [pc : Places, pods : SUBSET Pods, todo : SUBSET [pod : Pods, runs : BOOLEAN],
           svc : Labels, keys : SUBSET (Pods \cup {Svc}), copy : Copies, current : BOOLEAN]

VsTypeOK ==
  /\ pod \in [Pods -> Values] /\ svc \in Labels /\ ep \in Copies
  /\ podEvents \in Seq([pod : Pods, old : Values, new : Values])
  /\ svcEvents \in Seq([old : Labels, new : Labels])
  /\ thread \in [Threads -> Locals]

Once(e) == \A p \in Pods : Times(e, p) <= 1

\* A thread's copy has no address twice.  One of the current version has what the
\* server has; only the filter on pods leaves out the pod it removes.
CopyOK(t) ==
  LET local == thread[t]
  IN /\ Once(local.copy)
     /\ \A p, q \in local.pods : p = q
     /\ local.current =>
          \A p \in Pods :
            Listed(p) => Times(local.copy, p) > 0 \/ (t = "pod" /\ p \in local.pods)

VsInv == VsTypeOK /\ Once(ep) /\ \A t \in Threads : CopyOK(t)

-----------------------------------------------------------------------------
\* The events of a controller that starts are events.
LEMMA SeenTyped ==
  ASSUME NEW pods \in [Pods -> Values]
  PROVE  Seen(pods) \in Seq([pod : Pods, old : Values, new : Values])
<1> DEFINE S == {p \in Pods : pods[p] # NoPod}
<1>1. IsFiniteSet(S)
  BY VsAssumption, FS_Subset
<1>2. Cardinality(S) \in Nat /\ ExistsBijection(1 .. Cardinality(S), S)
  BY <1>1, FS_CardinalityType
<1>3. \E f \in [1 .. Cardinality(S) -> S] :
        \A i, j \in DOMAIN f : f[i] = f[j] => i = j
  BY <1>2 DEF ExistsBijection, Bijection, Injection, IsInjective
<1>4. Order(S) \in [1 .. Cardinality(S) -> S]
  BY <1>3 DEF Order
<1>5. DOMAIN Order(S) = 1 .. Cardinality(S)
  BY <1>4
<1>6. \A i \in 1 .. Cardinality(S) :
        PodEvent(Order(S)[i], pods[Order(S)[i]], pods[Order(S)[i]])
          \in [pod : Pods, old : Values, new : Values]
  BY <1>4 DEF PodEvent
<1> DEFINE T == [pod : Pods, old : Values, new : Values]
           n == Cardinality(S)
<1>7. Seen(pods) \in [1 .. n -> T]
  <2> HIDE DEF T, n
  <2>1. DOMAIN Order(S) = 1 .. n
    BY <1>5 DEF n
  <2>2. \A i \in 1 .. n :
          PodEvent(Order(S)[i], pods[Order(S)[i]], pods[Order(S)[i]]) \in T
    BY <1>6 DEF n, T
  <2> QED
    BY <2>1, <2>2 DEF Seen
<1>8. n \in Nat
  BY <1>2
<1> HIDE DEF T, n
<1>9. Seen(pods) \in Seq(T)
  BY <1>7, <1>8, SeqDef
<1> QED
  BY <1>9 DEF T

\* And so is the one it sees of the service.
LEMMA SvcSeenTyped ==
  ASSUME NEW s \in Labels
  PROVE  SvcSeen(s) \in Seq([old : Labels, new : Labels])
<1>1. SvcEvent(s, s) \in [old : Labels, new : Labels]
  BY DEF SvcEvent
<1> DEFINE T == [old : Labels, new : Labels]
<1>2. <<SvcEvent(s, s)>> \in Seq(T) /\ <<>> \in Seq(T)
  <2> HIDE DEF T
  <2>1. SvcEvent(s, s) \in T
    BY <1>1 DEF T
  <2> QED
    BY <2>1
<1> QED
  BY <1>2 DEF SvcSeen

\* What a thread may be left with when it has no copy to send.
Settled(local) ==
  /\ local \in Locals /\ Once(local.copy) /\ ~local.current
  /\ \A p, q \in local.pods : p = q

\* An idle thread has nothing to send.
LEMMA IdleSettled == NoEp \in Copies /\ Once(NoEp) /\ Settled(Idle)
<1>1. Empty \in [Pods -> Nat] /\ \A p \in Pods : Empty[p] = 0
  BY DEF Empty
<1>2. NoEp \in Copies
  BY <1>1 DEF NoEp, Copies, Labels
<1>3. Once(NoEp)
  BY <1>1 DEF NoEp, Once, Times
<1>4. Idle \in Locals /\ Idle.copy = NoEp /\ Idle.current = FALSE /\ Idle.pods = {}
  BY <1>2 DEF Idle, Locals, Labels, Places
<1> QED
  BY <1>2, <1>3, <1>4 DEF Settled

\* The three ways in which the threads change keep the invariant of the copies:
\* a thread goes on without a copy;
LEMMA BecomeOK ==
  ASSUME VsInv, NEW t \in Threads, NEW local, Settled(local), Become(t, local),
         UNCHANGED ep
  PROVE  thread' \in [Threads -> Locals] /\ \A u \in Threads : CopyOK(u)'
BY DEF VsInv, VsTypeOK, Become, Settled, CopyOK, Listed

\* it reads the Endpoints and has a copy to send;
LEMMA SendOK ==
  ASSUME VsInv, NEW t \in Threads, NEW local \in Locals, NEW copy \in Copies, Once(copy),
         \A p, q \in local.pods : p = q,
         ep.exists => \A p \in Pods :
                        Listed(p) => Times(copy, p) > 0 \/ (t = "pod" /\ p \in local.pods),
         Send(t, local, copy), UNCHANGED ep
  PROVE  thread' \in [Threads -> Locals] /\ \A u \in Threads : CopyOK(u)'
<1> DEFINE sent == [local EXCEPT !.pc = "update", !.copy = copy, !.current = ep.exists]
<1>1. /\ sent \in Locals /\ sent.copy = copy /\ sent.pods = local.pods
      /\ sent.current = ep.exists
  <2>1. ep.exists \in BOOLEAN
    BY DEF VsInv, VsTypeOK, Copies
  <2> QED
    BY <2>1 DEF Locals, Places
<1>2. thread' = [thread EXCEPT ![t] = sent]
  BY DEF Send, Become
<1> HIDE DEF sent
<1>3. thread' \in [Threads -> Locals]
  BY <1>1, <1>2 DEF VsInv, VsTypeOK
<1>4. ASSUME NEW u \in Threads, u # t PROVE CopyOK(u)'
  BY <1>2, <1>4 DEF VsInv, VsTypeOK, CopyOK, Listed
<1>5. CopyOK(t)'
  BY <1>1, <1>2 DEF VsInv, VsTypeOK, CopyOK, Listed
<1> QED
  BY <1>3, <1>4, <1>5

\* the Endpoints get a new content, which makes the other copies stale.
LEMMA ContentOK ==
  ASSUME VsInv, NEW new \in Copies, Once(new), NEW threads \in [Threads -> Locals],
         \A u \in Threads : threads[u] = thread[u] \/ Settled(threads[u]),
         NewContent(new, threads)
  PROVE  /\ ep' \in Copies /\ Once(ep)'
         /\ thread' \in [Threads -> Locals] /\ \A u \in Threads : CopyOK(u)'
<1>1. ep' \in Copies /\ Once(ep)'
  BY DEF NewContent, Once, Times
<1>2. CASE new # ep
  <2>1. thread' = [u \in Threads |-> [threads[u] EXCEPT !.current = FALSE]]
    BY <1>2 DEF NewContent
  <2>2. \A u \in Threads : /\ thread'[u] \in Locals /\ thread'[u].current = FALSE
                           /\ thread'[u].copy = threads[u].copy
                           /\ thread'[u].pods = threads[u].pods
    BY <2>1 DEF Locals
  <2>3. \A u \in Threads : CopyOK(u)'
    BY <2>2 DEF CopyOK, Settled, VsInv, Once, Times
  <2> QED
    BY <1>1, <2>1, <2>2, <2>3
<1>3. CASE new = ep
  <2>1. thread' = [u \in Threads |-> threads[u]] /\ ep' = ep
    BY <1>3 DEF NewContent
  <2>2. \A u \in Threads : CopyOK(u)'
    BY <2>1 DEF CopyOK, Settled, VsInv, Listed, Once, Times
  <2> QED
    BY <1>1, <2>1, <2>2
<1> QED
  BY <1>2, <1>3

\* A thread that a call returns to has no copy.
LEMMA ReturnedSettled ==
  ASSUME VsInv, NEW t \in Threads, NEW ok \in BOOLEAN
  PROVE  Settled(Returned(t, ok).local)
<1>1. CASE t = "svc"
  <2>1. /\ thread[t] \in Locals
        /\ \A p, q \in thread[t].pods : p = q
    BY DEF VsInv, VsTypeOK, CopyOK
  <2>2. Settled([thread[t] EXCEPT !.pc = "svc", !.copy = NoEp, !.current = FALSE])
    <3> DEFINE local == [thread[t] EXCEPT !.pc = "svc", !.copy = NoEp, !.current = FALSE]
    <3>1. NoEp \in Copies
      BY IdleSettled
    <3>2. /\ local \in Locals /\ local.copy = NoEp /\ local.current = FALSE
          /\ local.pods = thread[t].pods
      BY <2>1, <3>1 DEF Locals, Places
    <3> QED
      BY <2>1, <3>2, IdleSettled DEF Settled
  <2> QED
    BY <1>1, <2>2, IdleSettled DEF Returned
<1>2. CASE t \in {"pod", "worker"}
  BY <1>2, IdleSettled DEF Returned
<1> QED
  BY <1>1, <1>2 DEF Threads

-----------------------------------------------------------------------------
\* _createEp makes a copy with one more address, which the server did not have.
LEMMA CreateOK ==
  ASSUME VsInv, NEW t \in Threads, NEW p \in Pods, NEW local \in Locals,
         \A q, r \in local.pods : q = r,
         _createEp(t, p, local), UNCHANGED ep
  PROVE  thread' \in [Threads -> Locals] /\ \A u \in Threads : CopyOK(u)'
<1>1. CASE Listed(p)
  <2>1. Become(t, Returned(t, FALSE).local)
    BY <1>1 DEF _createEp, Return
  <2> QED
    BY <2>1, ReturnedSettled, BecomeOK
<1>2. CASE ~Listed(p)
  <2> DEFINE base == IF ep.exists THEN ep ELSE [NoEp EXCEPT !.hc = local.svc]
             copy == [base EXCEPT !.ready[p] = @ + 1]
  <2>1. Send(t, local, copy)
    BY <1>2 DEF _createEp
  <2>2. local.svc \in Labels /\ ep \in Copies /\ NoEp \in Copies
    BY IdleSettled DEF Locals, VsInv, VsTypeOK
  <2>3. base \in Copies /\ (ep.exists => base = ep)
    BY <2>2 DEF Copies
  <2>4. Once(base) /\ Times(base, p) = 0
    <3>1. CASE ep.exists
      BY <1>2, <2>2, <3>1 DEF VsInv, Listed, Times, Copies
    <3>2. CASE ~ep.exists
      <4>1. base = [NoEp EXCEPT !.hc = local.svc]
        BY <3>2
      <4>2. base.ready = Empty /\ base.notReady = Empty
        BY <4>1 DEF NoEp
      <4> QED
        BY <4>2 DEF Once, Times, Empty
    <3> QED
      BY <3>1, <3>2
  <2> HIDE DEF base
  <2>5. /\ copy \in Copies /\ copy.notReady = base.notReady
        /\ copy.ready = [base.ready EXCEPT ![p] = @ + 1]
    BY <2>3 DEF Copies
  <2> HIDE DEF copy
  <2>6. /\ Times(copy, p) = 1
        /\ \A q \in Pods : q # p => Times(copy, q) = Times(base, q)
    BY <2>3, <2>4, <2>5 DEF Times, Copies
  <2>7. Once(copy)
    BY <2>4, <2>6 DEF Once
  <2>8. ep.exists => \A q \in Pods : Listed(q) => Times(copy, q) > 0
    BY <2>3, <2>6 DEF Listed
  <2> QED
    BY <2>1, <2>5, <2>7, <2>8, SendOK
<1> QED
  BY <1>1, <1>2

\* The Update of a thread replaces the Endpoints by its copy, or fails.
LEMMA UpdateOK ==
  ASSUME VsInv, NEW t \in Threads, Update(t)
  PROVE  VsInv'
<1> DEFINE ok == Accepted(t)
           local == Returned(t, ok).local
           after == [thread EXCEPT ![t] = local]
           copy == [thread[t].copy EXCEPT !.exists = TRUE]
<1>1. thread[t] \in Locals /\ thread[t].copy \in Copies /\ Once(thread[t].copy)
  BY DEF VsInv, VsTypeOK, CopyOK, Locals
<1>2. Settled(local)
  <2>1. ok \in BOOLEAN
    BY <1>1 DEF Accepted, Fresh, Locals
  <2> QED
    BY <2>1, ReturnedSettled
<1>3. CASE ok
  <2>1. copy \in Copies /\ Once(copy)
    BY <1>1 DEF Copies, Once, Times
  <2>2. NewContent(copy, after)
    BY <1>3 DEF Update
  <2>3. /\ after \in [Threads -> Locals]
        /\ \A u \in Threads : after[u] = thread[u] \/ Settled(after[u])
    BY <1>2 DEF VsInv, VsTypeOK, Settled
  <2> HIDE DEF copy, after
  <2>4. /\ ep' \in Copies /\ Once(ep)'
        /\ thread' \in [Threads -> Locals] /\ \A u \in Threads : CopyOK(u)'
    BY <2>1, <2>2, <2>3, ContentOK
  <2> QED
    BY <2>4 DEF Update, VsInv, VsTypeOK
<1>4. CASE ~ok
  <2>1. Become(t, local) /\ UNCHANGED ep
    BY <1>4 DEF Update, Become
  <2> HIDE DEF local
  <2>2. thread' \in [Threads -> Locals] /\ \A u \in Threads : CopyOK(u)'
    BY <1>2, <2>1, BecomeOK
  <2>3. UNCHANGED <<pod, svc, podEvents, svcEvents>>
    BY DEF Update
  <2> QED
    BY <2>1, <2>2, <2>3 DEF VsInv, VsTypeOK, Once, Times
<1> QED
  BY <1>3, <1>4

\* What is left to show of a step that changes nothing but threads and queue.
LEMMA ThreadStep ==
  ASSUME VsInv, UNCHANGED <<server, podEvents, svcEvents>>,
         thread' \in [Threads -> Locals], \A u \in Threads : CopyOK(u)'
  PROVE  VsInv'
BY DEF VsInv, VsTypeOK, server, Once, Times

\* createEpInfo, from the filter on pods and from Reconcile.
LEMMA CreateEpInfoInv ==
  ASSUME VsInv, NEW t \in Threads, createEpInfo(t)
  PROVE  VsInv'
<1>1. PICK p \in thread[t].pods : _createEp(t, p, thread[t])
  BY DEF createEpInfo
<1>2. p \in Pods /\ thread[t] \in Locals /\ \A q, r \in thread[t].pods : q = r
  BY DEF VsInv, VsTypeOK, CopyOK, Locals
<1>3. UNCHANGED <<server, podEvents, svcEvents>>
  BY DEF createEpInfo, events
<1>4. thread' \in [Threads -> Locals] /\ \A u \in Threads : CopyOK(u)'
  BY <1>1, <1>2, <1>3, CreateOK DEF server
<1> QED
  BY <1>3, <1>4, ThreadStep

\* Every state the controller starts in satisfies the invariant.
LEMMA VsInitInv == VsInit => VsInv
<1> SUFFICES ASSUME VsInit PROVE VsInv
  OBVIOUS
<1>1. pod \in [Pods -> Values]
  <2>1. {[phase |-> "pending", vs |-> TRUE], [phase |-> "running", vs |-> TRUE]} \subseteq Values
    BY DEF Values
  <2> QED
    BY <2>1 DEF VsInit
<1>2. svc \in Labels
  BY DEF VsInit, Labels
<1>3. podEvents \in Seq([pod : Pods, old : Values, new : Values])
  BY <1>1, SeenTyped DEF VsInit
<1>4. svcEvents \in Seq([old : Labels, new : Labels])
  BY <1>2, SvcSeenTyped DEF VsInit
<1>5. ep \in Copies /\ Once(ep)
  <2>1. CASE ep = NoEp
    BY <2>1, IdleSettled
  <2>2. ASSUME NEW listed, 
               ep = [NewEp(svc) EXCEPT !.ready = [p \in Pods |-> IF p \in listed THEN 1 ELSE 0]]
        PROVE  ep \in Copies /\ Once(ep)
    <3>1. Empty \in [Pods -> Nat] /\ \A p \in Pods : Empty[p] = 0
      BY DEF Empty
    <3>2. ep = [exists |-> TRUE, ready |-> [p \in Pods |-> IF p \in listed THEN 1 ELSE 0],
                notReady |-> Empty, hc |-> svc]
      BY <2>2 DEF NewEp, NoEp
    <3>3. ep \in Copies
      BY <1>2, <3>1, <3>2 DEF Copies
    <3> QED
      BY <3>1, <3>2, <3>3 DEF Once, Times
  <2> QED
    BY <2>1, <2>2 DEF VsInit
<1>6. thread \in [Threads -> Locals] /\ \A t \in Threads : CopyOK(t)
  <2>1. thread = [t \in Threads |-> Idle]
    BY DEF VsInit
  <2> QED
    BY <2>1, IdleSettled DEF CopyOK, Settled
<1> QED
  BY <1>1, <1>2, <1>3, <1>4, <1>5, <1>6 DEF VsInv, VsTypeOK

\* A restart loses the threads and keeps the cluster.
LEMMA RestartInv == VsInv /\ restart => VsInv'
<1> SUFFICES ASSUME VsInv, restart PROVE VsInv'
  OBVIOUS
<1>1. pod \in [Pods -> Values] /\ svc \in Labels
  BY DEF VsInv, VsTypeOK
<1>2. podEvents' \in Seq([pod : Pods, old : Values, new : Values])
  BY <1>1, SeenTyped DEF restart
<1>3. svcEvents' \in Seq([old : Labels, new : Labels])
  BY <1>1, SvcSeenTyped DEF restart
<1>4. thread' \in [Threads -> Locals] /\ \A t \in Threads : CopyOK(t)'
  <2>1. thread' = [t \in Threads |-> Idle]
    BY DEF restart
  <2> QED
    BY <2>1, IdleSettled DEF CopyOK, Settled
<1> QED
  BY <1>2, <1>3, <1>4 DEF restart, VsInv, VsTypeOK, server, Once, Times

\* The cluster's own steps.
LEMMA ClusterInv ==
  VsInv /\ (svc_changes \/ ep_event \/ \E p \in Pods : pod_changes(p) \/ modify_ep(p)) => VsInv'
<1> SUFFICES ASSUME VsInv,
                    svc_changes \/ ep_event \/ \E p \in Pods : pod_changes(p) \/ modify_ep(p)
             PROVE  VsInv'
  OBVIOUS
<1>1. CASE svc_changes
  <2>1. svc' \in Labels /\ SvcEvent(svc, svc') \in [old : Labels, new : Labels]
    BY <1>1 DEF svc_changes, VsInv, VsTypeOK, Labels, SvcEvent
  <2>2. svcEvents' \in Seq([old : Labels, new : Labels])
    BY <1>1, <2>1 DEF svc_changes, VsInv, VsTypeOK
  <2> QED
    BY <1>1, <2>1, <2>2 DEF svc_changes, VsInv, VsTypeOK, CopyOK, Listed, Once, Times
<1>2. CASE ep_event
  BY <1>2 DEF ep_event, server, VsInv, VsTypeOK, CopyOK, Listed, Once, Times
<1>3. ASSUME NEW p \in Pods, pod_changes(p) PROVE VsInv'
  <2>1. PICK new \in PodMoves(pod[p]) :
               /\ pod' = [pod EXCEPT ![p] = new]
               /\ podEvents' = Append(podEvents, PodEvent(p, pod[p], new))
    BY <1>3 DEF pod_changes
  <2>2. new \in Values /\ pod[p] \in Values
    <3>1. pod[p] \in Values /\ NoPod \in Values
      BY DEF VsInv, VsTypeOK, Values, NoPod
    <3>2. /\ [phase |-> "pending", vs |-> TRUE] \in Values
          /\ [pod[p] EXCEPT !.phase = "running"] \in Values
          /\ [pod[p] EXCEPT !.vs = ~@] \in Values
      BY <3>1 DEF Values
    <3> QED
      BY <3>1, <3>2 DEF PodMoves
  <2>3. PodEvent(p, pod[p], new) \in [pod : Pods, old : Values, new : Values]
    BY <2>2 DEF PodEvent
  <2>4. podEvents' \in Seq([pod : Pods, old : Values, new : Values])
    BY <2>1, <2>3 DEF VsInv, VsTypeOK
  <2> QED
    BY <1>3, <2>1, <2>2, <2>4 DEF pod_changes, VsInv, VsTypeOK, CopyOK, Listed, Once, Times
<1>4. ASSUME NEW p \in Pods, modify_ep(p) PROVE VsInv'
  <2> DEFINE new == IF ep.ready[p] > 0
                    THEN [ep EXCEPT !.ready[p] = 0, !.notReady[p] = Times(ep, p)]
                    ELSE [ep EXCEPT !.notReady[p] = 0, !.ready[p] = Times(ep, p)]
  <2>1. new \in Copies /\ Once(new)
    <3>1. ep \in Copies /\ Once(ep) /\ Times(ep, p) \in Nat
      BY DEF VsInv, VsTypeOK, Copies, Times
    <3>2. /\ new \in Copies
          /\ Times(new, p) = Times(ep, p)
          /\ \A q \in Pods : q # p => Times(new, q) = Times(ep, q)
      <4>1. CASE ep.ready[p] > 0
        <5>1. new = [ep EXCEPT !.ready[p] = 0, !.notReady[p] = Times(ep, p)]
          BY <4>1
        <5> HIDE DEF new
        <5>2. /\ new \in Copies /\ new.ready = [ep.ready EXCEPT ![p] = 0]
              /\ new.notReady = [ep.notReady EXCEPT ![p] = Times(ep, p)]
          BY <3>1, <5>1 DEF Copies
        <5> QED
          BY <3>1, <5>2 DEF Copies, Times
      <4>2. CASE ~(ep.ready[p] > 0)
        <5>1. new = [ep EXCEPT !.notReady[p] = 0, !.ready[p] = Times(ep, p)]
          BY <4>2
        <5> HIDE DEF new
        <5>2. /\ new \in Copies /\ new.notReady = [ep.notReady EXCEPT ![p] = 0]
              /\ new.ready = [ep.ready EXCEPT ![p] = Times(ep, p)]
          BY <3>1, <5>1 DEF Copies
        <5> QED
          BY <3>1, <5>2 DEF Copies, Times
      <4> QED
        BY <4>1, <4>2
    <3> QED
      BY <3>1, <3>2 DEF Once
  <2>2. NewContent(new, thread)
    BY <1>4 DEF modify_ep
  <2> HIDE DEF new
  <2>3. /\ ep' \in Copies /\ Once(ep)'
        /\ thread' \in [Threads -> Locals] /\ \A u \in Threads : CopyOK(u)'
    BY <2>1, <2>2, ContentOK DEF VsInv, VsTypeOK
  <2> QED
    BY <1>4, <2>3 DEF modify_ep, VsInv, VsTypeOK
<1> QED
  BY <1>1, <1>2, <1>3, <1>4

-----------------------------------------------------------------------------
\* The filter on pods.
LEMMA PodThreadInv == VsInv /\ PodThread => VsInv'
<1> SUFFICES ASSUME VsInv, PodThread PROVE VsInv'
  OBVIOUS
<1> USE DEF Threads
<1>1. CASE pod_event
  <2> DEFINE e == Head(podEvents)
  <2>1. podEvents # <<>> /\ podEvents' = Tail(podEvents)
    BY <1>1 DEF pod_event
  <2>2. /\ e \in [pod : Pods, old : Values, new : Values]
        /\ podEvents' \in Seq([pod : Pods, old : Values, new : Values])
    BY <2>1, HeadTailProperties DEF VsInv, VsTypeOK
  <2>3. \/ UNCHANGED thread
        \/ Become("pod", [Idle EXCEPT !.pc = "create", !.pods = {e.pod}, !.svc = svc, !.keys = {}])
        \/ \E keys \in SUBSET {e.pod} :
             Become("pod", [Idle EXCEPT !.pc = "delete", !.pods = {e.pod}, !.svc = "none",
                                        !.keys = keys])
    BY <1>1 DEF pod_event, pod_created, pod_deleted, pod_updated, syncEndpointsWithPodLabel,
       Call, Enqueue
  <2>4. \A pc \in Places, l \in Labels, keys \in SUBSET {e.pod} :
          Settled([Idle EXCEPT !.pc = pc, !.pods = {e.pod}, !.svc = l, !.keys = keys])
    <3> HIDE DEF e
    <3>1. e.pod \in Pods
      BY <2>2
    <3>2. Idle \in Locals /\ Once(Idle.copy) /\ Idle.current = FALSE
      BY IdleSettled DEF Settled
    <3>3. ASSUME NEW pc \in Places, NEW l \in Labels, NEW keys \in SUBSET {e.pod}
          PROVE  Settled([Idle EXCEPT !.pc = pc, !.pods = {e.pod}, !.svc = l, !.keys = keys])
      <4> DEFINE local == [Idle EXCEPT !.pc = pc, !.pods = {e.pod}, !.svc = l, !.keys = keys]
      <4>1. /\ local \in Locals /\ local.copy = Idle.copy /\ local.current = FALSE
            /\ local.pods = {e.pod}
        BY <3>1, <3>2 DEF Locals
      <4> QED
        BY <3>2, <4>1 DEF Settled
    <3> QED
      BY <3>3
  <2>5. UNCHANGED server /\ UNCHANGED svcEvents
    BY <1>1 DEF pod_event
  <2>6. svc \in Labels /\ "none" \in Labels /\ "create" \in Places /\ "delete" \in Places
    BY DEF VsInv, VsTypeOK, Labels, Places
  <2> HIDE DEF e
  <2>7. thread' \in [Threads -> Locals] /\ \A u \in Threads : CopyOK(u)'
    <3>1. CASE UNCHANGED thread
      BY <2>5, <3>1 DEF VsInv, VsTypeOK, CopyOK, server, Listed
    <3>2. ASSUME NEW local, Settled(local), Become("pod", local)
          PROVE  thread' \in [Threads -> Locals] /\ \A u \in Threads : CopyOK(u)'
      <4>1. UNCHANGED ep
        BY <2>5 DEF server
      <4> QED
        BY <3>2, <4>1, BecomeOK
    <3> QED
      BY <2>3, <2>4, <2>6, <3>1, <3>2
  <2> QED
    BY <2>2, <2>5, <2>7 DEF VsInv, VsTypeOK, server, Once, Times
<1>2. CASE deleteEp
  <2>1. PICK p \in thread["pod"].pods :
          IF Listed(p)
          THEN Send("pod", thread["pod"], IF ep.ready[p] > 0 THEN [ep EXCEPT !.ready[p] = 0]
                                                            ELSE [ep EXCEPT !.notReady[p] = 0])
          ELSE Return("pod", TRUE)
    BY <1>2 DEF deleteEp
  <2>2. /\ p \in Pods /\ thread["pod"] \in Locals /\ ep \in Copies /\ Once(ep)
        /\ \A q, r \in thread["pod"].pods : q = r
    BY DEF VsInv, VsTypeOK, CopyOK, Locals
  <2>3. UNCHANGED <<server, podEvents, svcEvents>>
    BY <1>2 DEF deleteEp, events
  <2>4. CASE Listed(p)
    <3> DEFINE copy == IF ep.ready[p] > 0 THEN [ep EXCEPT !.ready[p] = 0]
                                          ELSE [ep EXCEPT !.notReady[p] = 0]
    <3>1. /\ copy \in Copies /\ Times(copy, p) <= Times(ep, p)
          /\ \A q \in Pods : q # p => Times(copy, q) = Times(ep, q)
      BY <2>2 DEF Copies, Times
    <3>2. Send("pod", thread["pod"], copy)
      BY <2>1, <2>4
    <3> HIDE DEF copy
    <3>3. Once(copy)
      BY <2>2, <3>1 DEF Once, Times, Copies
    <3>4. \A q \in Pods : Listed(q) => Times(copy, q) > 0 \/ q \in thread["pod"].pods
      BY <3>1 DEF Listed
    <3>5. thread' \in [Threads -> Locals] /\ \A u \in Threads : CopyOK(u)'
      BY <2>2, <2>3, <3>1, <3>2, <3>3, <3>4, SendOK DEF server
    <3> QED
      BY <2>3, <3>5, ThreadStep
  <2>5. CASE ~Listed(p)
    <3>1. Become("pod", Returned("pod", TRUE).local)
      BY <2>1, <2>5 DEF Return
    <3>2. thread' \in [Threads -> Locals] /\ \A u \in Threads : CopyOK(u)'
      BY <2>3, <3>1, ReturnedSettled, BecomeOK DEF server
    <3> QED
      BY <2>3, <3>2, ThreadStep
  <2> QED
    BY <2>4, <2>5
<1>3. CASE createEpInfo("pod")
  BY <1>3, CreateEpInfoInv
<1>4. CASE Update("pod")
  BY <1>4, UpdateOK
<1> QED
  BY <1>1, <1>2, <1>3, <1>4 DEF PodThread

\* The filter on services.
LEMMA SvcThreadInv == VsInv /\ SvcThread => VsInv'
<1> SUFFICES ASSUME VsInv, SvcThread PROVE VsInv'
  OBVIOUS
<1> USE DEF Threads
<1>1. CASE svc_event
  <2> DEFINE e == Head(svcEvents)
             todo == {[pod |-> p, runs |-> Wanted(pod[p])] : p \in {q \in Pods : pod[q].vs}}
             local == [Idle EXCEPT !.pc = "svc", !.svc = e.new, !.todo = todo]
  <2>1. svcEvents # <<>> /\ svcEvents' = Tail(svcEvents)
    BY <1>1 DEF svc_event
  <2>2. /\ e \in [old : Labels, new : Labels]
        /\ svcEvents' \in Seq([old : Labels, new : Labels])
    BY <2>1, HeadTailProperties DEF VsInv, VsTypeOK
  <2>3. UNCHANGED thread \/ Become("svc", local)
    BY <1>1 DEF svc_event
  <2>4. todo \in SUBSET [pod : Pods, runs : BOOLEAN]
    <3>1. \A p \in Pods : Wanted(pod[p]) \in BOOLEAN
      BY DEF Wanted, VsInv, VsTypeOK, Values
    <3> QED
      BY <3>1
  <2>5. Settled(local)
    <3> HIDE DEF e, todo
    <3>1. e.new \in Labels
      BY <2>2
    <3>2. Idle \in Locals /\ Once(Idle.copy) /\ Idle.current = FALSE /\ Idle.pods = {}
      BY IdleSettled DEF Settled, Idle
    <3>3. /\ local \in Locals /\ local.copy = Idle.copy /\ local.current = FALSE
          /\ local.pods = {}
      BY <2>4, <3>1, <3>2 DEF Locals, Places
    <3> QED
      BY <3>2, <3>3 DEF Settled
  <2>6. UNCHANGED <<server, podEvents>>
    BY <1>1 DEF svc_event
  <2> HIDE DEF local
  <2>7. thread' \in [Threads -> Locals] /\ \A u \in Threads : CopyOK(u)'
    <3>1. CASE UNCHANGED thread
      BY <2>6, <3>1 DEF VsInv, VsTypeOK, CopyOK, server, Listed
    <3>2. CASE Become("svc", local)
      BY <2>5, <2>6, <3>2, BecomeOK DEF server
    <3> QED
      BY <2>3, <3>1, <3>2
  <2> QED
    BY <2>2, <2>6, <2>7 DEF VsInv, VsTypeOK, server, Once, Times
<1>2. CASE createEpBaseSvc
  <2> DEFINE local == thread["svc"]
  <2>1. /\ local \in Locals /\ Once(local.copy) /\ \A q, r \in local.pods : q = r
        /\ ep \in Copies
    BY DEF VsInv, VsTypeOK, CopyOK
  <2>2. UNCHANGED <<server, podEvents, svcEvents>>
    BY <1>2 DEF createEpBaseSvc, events
  <2>3. CASE Become("svc", Idle)
    <3>1. thread' \in [Threads -> Locals] /\ \A u \in Threads : CopyOK(u)'
      BY <2>2, <2>3, IdleSettled, BecomeOK DEF server
    <3> QED
      BY <2>2, <3>1, ThreadStep
  <2>4. ASSUME NEW item \in local.todo,
               LET rest == [local EXCEPT !.todo = @ \ {item}]
               IN IF item.runs THEN _createEp("svc", item.pod, rest)
                                  ELSE createEpBaseSvcWithoutAddress(rest)
        PROVE  VsInv'
    <3> DEFINE rest == [local EXCEPT !.todo = @ \ {item}]
    <3>1. item.pod \in Pods /\ local.svc \in Labels
      BY <2>1 DEF Locals
    <3>2. /\ rest \in Locals /\ rest.copy = local.copy /\ rest.pods = local.pods
          /\ rest.current = local.current /\ rest.svc = local.svc
      BY <2>1 DEF Locals
    <3>3. CASE item.runs
      <4>1. _createEp("svc", item.pod, rest)
        BY <2>4, <3>3
      <4> HIDE DEF rest
      <4>2. thread' \in [Threads -> Locals] /\ \A u \in Threads : CopyOK(u)'
        BY <2>1, <2>2, <3>1, <3>2, <4>1, CreateOK DEF server
      <4> QED
        BY <2>2, <4>2, ThreadStep
    <3>4. CASE ~item.runs /\ ep.exists
      <4>1. thread' = [thread EXCEPT !["svc"] = rest]
        BY <2>4, <3>4 DEF createEpBaseSvcWithoutAddress, Become
      <4> HIDE DEF rest
      <4>2. thread' \in [Threads -> Locals] /\ \A u \in Threads : CopyOK(u)'
        BY <2>2, <3>2, <4>1 DEF VsInv, VsTypeOK, CopyOK, server, Listed
      <4> QED
        BY <2>2, <4>2, ThreadStep
    <3>5. CASE ~item.runs /\ ~ep.exists
      <4> DEFINE copy == [NoEp EXCEPT !.hc = local.svc]
      <4>1. Send("svc", rest, copy)
        BY <2>4, <3>2, <3>5 DEF createEpBaseSvcWithoutAddress
      <4>2. copy \in Copies /\ copy.ready = NoEp.ready /\ copy.notReady = NoEp.notReady
        BY <3>1, IdleSettled DEF Copies
      <4>3. Once(copy)
        BY <4>2, IdleSettled DEF Once, Times
      <4> HIDE DEF rest, copy
      <4>4. thread' \in [Threads -> Locals] /\ \A u \in Threads : CopyOK(u)'
        BY <2>1, <2>2, <3>2, <3>5, <4>1, <4>2, <4>3, SendOK DEF server
      <4> QED
        BY <2>2, <4>4, ThreadStep
    <3> QED
      BY <3>3, <3>4, <3>5, <2>1 DEF Copies
  <2> QED
    BY <1>2, <2>3, <2>4 DEF createEpBaseSvc
<1>3. CASE Update("svc")
  BY <1>3, UpdateOK
<1> QED
  BY <1>1, <1>2, <1>3 DEF SvcThread

\* The worker.
LEMMA WorkerInv == VsInv /\ (Worker \/ \E k \in Pods \cup {Svc} : Take(k)) => VsInv'
<1> SUFFICES ASSUME VsInv, Worker \/ \E k \in Pods \cup {Svc} : Take(k) PROVE VsInv'
  OBVIOUS
<1> USE DEF Threads
<1> DEFINE local == thread["worker"]
<1>1. /\ local \in Locals /\ Once(local.copy) /\ \A q, r \in local.pods : q = r
      /\ ep \in Copies /\ Once(ep) /\ svc \in Labels /\ local.svc \in Labels
  BY DEF VsInv, VsTypeOK, CopyOK, Locals
<1>2. ASSUME NEW l, Settled(l), Become("worker", l), UNCHANGED <<server, podEvents, svcEvents>>
      PROVE  VsInv'
  <2>1. UNCHANGED ep
    BY <1>2 DEF server
  <2>2. thread' \in [Threads -> Locals] /\ \A u \in Threads : CopyOK(u)'
    BY <1>2, <2>1, BecomeOK
  <2> QED
    BY <1>2, <2>2, ThreadStep
<1>3. ASSUME UNCHANGED <<server, podEvents, svcEvents, thread>> PROVE VsInv'
  BY <1>3 DEF VsInv, VsTypeOK, CopyOK, server, Listed, Once, Times
<1>4. ASSUME NEW copy \in Copies, Once(copy),
             ep.exists => copy.ready = ep.ready /\ copy.notReady = ep.notReady,
             Send("worker", local, copy), UNCHANGED <<server, podEvents, svcEvents>>
      PROVE  VsInv'
  <2>1. UNCHANGED ep
    BY <1>4 DEF server
  <2>2. ep.exists => \A p \in Pods : Listed(p) => Times(copy, p) > 0
    BY <1>4 DEF Listed, Times
  <2>3. thread' \in [Threads -> Locals] /\ \A u \in Threads : CopyOK(u)'
    BY <1>1, <1>4, <2>1, <2>2, SendOK
  <2> QED
    BY <1>4, <2>3, ThreadStep
<1>5. CASE ReconcileSvc
  <2>1. UNCHANGED <<server, podEvents, svcEvents>>
    BY <1>5 DEF ReconcileSvc, events
  <2>2. PICK s \in Cached(svcEvents, svc) :
          thread' = IF s = "none" THEN thread
                    ELSE [thread EXCEPT !["worker"] = [Idle EXCEPT !.pc = "label", !.svc = s,
                                                                   !.keys = {Svc}]]
    BY <1>5 DEF ReconcileSvc
  <2>3. s \in Labels
    <3>1. CASE svcEvents = <<>>
      BY <1>1, <3>1 DEF Cached
    <3>2. CASE svcEvents # <<>>
      <4>1. Head(svcEvents) \in [old : Labels, new : Labels]
        BY <3>2, HeadTailProperties DEF VsInv, VsTypeOK
      <4>2. \A i \in DOMAIN svcEvents : svcEvents[i].new \in Labels
        <5>1. svcEvents \in Seq([old : Labels, new : Labels])
          BY DEF VsInv, VsTypeOK
        <5>2. DOMAIN svcEvents = 1 .. Len(svcEvents)
          BY <5>1
        <5>3. \A i \in 1 .. Len(svcEvents) : svcEvents[i] \in [old : Labels, new : Labels]
          BY <5>1, ElementOfSeq
        <5> QED
          BY <5>2, <5>3
      <4> QED
        BY <3>2, <4>1, <4>2 DEF Cached
    <3> QED
      BY <3>1, <3>2
  <2> DEFINE l == [Idle EXCEPT !.pc = "label", !.svc = s, !.keys = {Svc}]
  <2>4. Settled(l)
    <3>1. Idle \in Locals /\ Once(Idle.copy) /\ Idle.current = FALSE /\ Idle.pods = {}
      BY IdleSettled DEF Settled, Idle
    <3>2. l \in Locals /\ l.copy = Idle.copy /\ l.current = FALSE /\ l.pods = {}
      BY <2>3, <3>1 DEF Locals, Places
    <3> QED
      BY <3>1, <3>2 DEF Settled
  <2> HIDE DEF l
  <2>5. UNCHANGED thread \/ Become("worker", l)
    BY <2>2 DEF Become, l
  <2> QED
    BY <1>2, <1>3, <2>1, <2>4, <2>5
<1>6. CASE syncSvcLabelToEp
  <2> DEFINE copy == [(IF ep.exists THEN ep ELSE NoEp) EXCEPT !.hc = local.svc]
  <2>1. Send("worker", local, copy) /\ UNCHANGED <<server, podEvents, svcEvents>>
    BY <1>6 DEF syncSvcLabelToEp, events
  <2>2. NoEp \in Copies /\ Once(NoEp)
    BY IdleSettled
  <2>3. /\ copy \in Copies
        /\ ep.exists => copy.ready = ep.ready /\ copy.notReady = ep.notReady
        /\ ~ep.exists => copy.ready = NoEp.ready /\ copy.notReady = NoEp.notReady
    BY <1>1, <2>2 DEF Copies
  <2>4. Once(copy)
    BY <1>1, <2>2, <2>3 DEF Once, Times, Copies
  <2> QED
    BY <1>4, <2>1, <2>3, <2>4
<1>7. ASSUME NEW p \in Pods, ReconcilePod(p) PROVE VsInv'
  <2>1. UNCHANGED <<server, podEvents, svcEvents>>
    BY <1>7 DEF ReconcilePod, events
  <2>2. PICK pods \in {{p}, {}} :
          \/ UNCHANGED thread
          \/ Become("worker", [Idle EXCEPT !.pc = "pod", !.keys = {p}, !.pods = pods])
    BY <1>7 DEF ReconcilePod, Become
  <2> DEFINE l == [Idle EXCEPT !.pc = "pod", !.keys = {p}, !.pods = pods]
  <2>3. Settled(l)
    <3>1. Idle \in Locals /\ Once(Idle.copy) /\ Idle.current = FALSE
      BY IdleSettled DEF Settled
    <3>2. l \in Locals /\ l.copy = Idle.copy /\ l.current = FALSE /\ l.pods = pods
      BY <3>1 DEF Locals, Places
    <3> QED
      BY <3>1, <3>2 DEF Settled
  <2> HIDE DEF l
  <2>4. UNCHANGED thread \/ Become("worker", l)
    BY <2>2 DEF l
  <2> QED
    BY <1>2, <1>3, <2>1, <2>3, <2>4
<1>8. CASE updateEpInfo
  <2>1. UNCHANGED <<server, podEvents, svcEvents>>
    BY <1>8 DEF updateEpInfo, events
  <2> DEFINE l == [local EXCEPT !.pc = "create", !.svc = svc]
  <2>2. \/ Send("worker", local, ep)
        \/ Become("worker", l)
        \/ \E ok \in BOOLEAN : Become("worker", Returned("worker", ok).local)
    BY <1>8 DEF updateEpInfo, _updateEp, Return
  <2>3. CASE Send("worker", local, ep)
    BY <1>1, <1>4, <2>1, <2>3
  <2>4. CASE Become("worker", l)
    <3>1. /\ l \in Locals /\ l.copy = local.copy /\ l.pods = local.pods
          /\ l.current = local.current
      BY <1>1 DEF Locals, Places
    <3>2. thread' = [thread EXCEPT !["worker"] = l]
      BY <2>4 DEF Become
    <3> HIDE DEF l
    <3>3. thread' \in [Threads -> Locals] /\ \A u \in Threads : CopyOK(u)'
      BY <2>1, <3>1, <3>2 DEF VsInv, VsTypeOK, CopyOK, server, Listed
    <3> QED
      BY <2>1, <3>3, ThreadStep
  <2>5. ASSUME NEW ok \in BOOLEAN, Become("worker", Returned("worker", ok).local) PROVE VsInv'
    BY <1>2, <2>1, <2>5, ReturnedSettled
  <2> QED
    BY <2>2, <2>3, <2>4, <2>5
<1>9. CASE createEpInfo("worker") \/ Update("worker")
  BY <1>9, CreateEpInfoInv, UpdateOK
<1> QED
  BY <1>5, <1>6, <1>7, <1>8, <1>9 DEF Worker, Take

-----------------------------------------------------------------------------
\* The invariant holds in every reachable state.
THEOREM VsInvariant == VsSpec => []VsInv
<1>1. VsInv /\ [VsNext]_evars => VsInv'
  <2> SUFFICES ASSUME VsInv, [VsNext]_evars PROVE VsInv'
    OBVIOUS
  <2>1. CASE UNCHANGED evars
    BY <2>1 DEF evars, server, events, VsInv, VsTypeOK, CopyOK, Listed, Once, Times
  <2>2. CASE VsNext
    BY <2>2, ClusterInv, PodThreadInv, SvcThreadInv, WorkerInv, RestartInv DEF VsNext
  <2> QED
    BY <2>1, <2>2
<1> QED
  BY <1>1, VsInitInv, PTL DEF VsSpec

\* No address is ever listed twice (_createEp, deleteEp, syncSvcLabelToEp and the
\* moves of the health checks), however the threads interleave.
THEOREM AddressesOnce == VsSpec => []NoAddressTwice
<1>1. VsInv => NoAddressTwice
  BY DEF VsInv, Once, NoAddressTwice
<1> QED
  BY <1>1, VsInvariant, PTL

\* A step that takes an address out of the Endpoints is the Update of deleteEp for
\* that pod, or of a thread that had found no Endpoints.
LEMMA LossStep ==
  ASSUME VsInv, [VsNext]_evars, NEW p \in Pods, Listed(p), ~Listed(p)'
  PROVE  \/ Removes(p) /\ ~Removes(p)'
         \/ \E t \in Threads : Fresh(t) /\ ~Fresh(t)'
<1>1. ep' # ep
  BY DEF Listed
<1>2. \A q \in Pods : ~modify_ep(q)
  <2> SUFFICES ASSUME NEW q \in Pods, modify_ep(q) PROVE FALSE
    OBVIOUS
  <2>1. ep \in Copies /\ Times(ep, q) \in Nat /\ Times(ep, q) > 0
    BY DEF modify_ep, Listed, VsInv, VsTypeOK, Copies, Times
  <2>2. ep' = IF ep.ready[q] > 0
              THEN [ep EXCEPT !.ready[q] = 0, !.notReady[q] = Times(ep, q)]
              ELSE [ep EXCEPT !.notReady[q] = 0, !.ready[q] = Times(ep, q)]
    BY DEF modify_ep, NewContent
  <2>3. /\ q # p => ep'.ready[p] = ep.ready[p] /\ ep'.notReady[p] = ep.notReady[p]
        /\ ep'.ready[q] + ep'.notReady[q] = Times(ep, q)
    <3>1. CASE ep.ready[q] > 0
      <4>1. ep' = [ep EXCEPT !.ready[q] = 0, !.notReady[q] = Times(ep, q)]
        BY <2>2, <3>1
      <4> QED
        BY <2>1, <4>1 DEF Copies
    <3>2. CASE ~(ep.ready[q] > 0)
      <4>1. ep' = [ep EXCEPT !.notReady[q] = 0, !.ready[q] = Times(ep, q)]
        BY <2>2, <3>2
      <4> QED
        BY <2>1, <4>1 DEF Copies
    <3> QED
      BY <3>1, <3>2
  <2> QED
    BY <2>1, <2>3 DEF Listed, Times
<1>3. PICK t \in Threads : Update(t)
  BY <1>1, <1>2 DEF VsNext, evars, server, events, counts, PodThread, SvcThread, Worker, Take,
     pod_changes, svc_changes, ep_event, pod_event, deleteEp, svc_event, createEpBaseSvc,
     createEpInfo, ReconcileSvc, syncSvcLabelToEp, ReconcilePod, updateEpInfo, restart, Threads
<1>4. Accepted(t) /\ ep' = [thread[t].copy EXCEPT !.exists = TRUE]
  BY <1>1, <1>3 DEF Update, NewContent
<1>5. thread[t] \in Locals /\ thread[t].copy \in Copies /\ CopyOK(t) /\ ep \in Copies
  BY DEF VsInv, VsTypeOK, Locals
<1>6. Times(thread[t].copy, p) = 0
  BY <1>4, <1>5 DEF Listed, Times, Copies
<1>7. thread'[t].pc # "update" /\ (t = "pod" => thread'[t].pods = {})
  <2>1. /\ Settled(Returned(t, TRUE).local)
        /\ Returned(t, TRUE).local.pc \in {"idle", "svc"}
        /\ t = "pod" => Returned(t, TRUE).local.pods = {}
    <3>1. Settled(Returned(t, TRUE).local)
      BY ReturnedSettled
    <3>2. CASE t \in {"pod", "worker"}
      BY <3>1, <3>2 DEF Returned, Idle
    <3>3. CASE t = "svc"
      BY <1>5, <3>1, <3>3 DEF Returned, Locals
    <3> QED
      BY <3>2, <3>3 DEF Threads
  <2> DEFINE local == Returned(t, TRUE).local
  <2>2. thread'[t] = [local EXCEPT !.current = FALSE]
    <3>1. NewContent([thread[t].copy EXCEPT !.exists = TRUE],
                     [thread EXCEPT ![t] = Returned(t, Accepted(t)).local])
      BY <1>3, <1>4 DEF Update
    <3>2. Accepted(t) = TRUE
      BY <1>4, <1>5 DEF Accepted, Fresh, Locals
    <3>3. thread' = [u \in Threads |->
                       [[thread EXCEPT ![t] = Returned(t, TRUE).local][u] EXCEPT !.current = FALSE]]
      BY <1>1, <1>4, <3>1, <3>2 DEF NewContent
    <3> QED
      BY <3>3 DEF VsInv, VsTypeOK
  <2> HIDE DEF local
  <2>3. local \in Locals
    BY <2>1 DEF local, Settled
  <2> QED
    BY <2>1, <2>2, <2>3 DEF local, Locals
<1>8. CASE Fresh(t)
  BY <1>7, <1>8 DEF Fresh
<1>9. CASE ~Fresh(t)
  <2>1. thread[t].current
    BY <1>4, <1>9 DEF Accepted
  <2>2. t = "pod" /\ p \in thread[t].pods
    BY <1>5, <1>6, <2>1 DEF CopyOK
  <2>3. thread["pod"].pods = {p}
    BY <1>5, <2>2 DEF CopyOK
  <2>4. Removes(p)
    BY <1>3, <2>2, <2>3 DEF Removes, Update
  <2> QED
    BY <1>7, <2>2, <2>4 DEF Removes
<1> QED
  BY <1>8, <1>9

\* No thread's write takes out an address that another has put in, except the
\* creation of Endpoints that the thread did not find.
THEOREM AddressesKept == VsSpec => NoAddressLost
<1>1. VsInv /\ [VsNext]_evars =>
        [\A p \in Pods : Listed(p) /\ ~Listed(p)' =>
           \/ Removes(p) /\ ~Removes(p)'
           \/ \E t \in Threads : Fresh(t) /\ ~Fresh(t)']_evars
  BY LossStep
<1> QED
  BY <1>1, VsInvariant, PTL DEF VsSpec, NoAddressLost
=============================================================================
