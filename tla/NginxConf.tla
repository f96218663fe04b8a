------------------------------ MODULE NginxConf ------------------------------
(***************************************************************************)
(* How nginx's configuration follows the Endpoints (controllers/lbhc).     *)
(* Every service with health checks has an upstream block in upstream.conf *)
(* of the http or of the stream part of the configuration.  Three threads  *)
(* write these files or drive the nginx binary, without a lock:            *)
(*   - "worker": Reconcile of an Endpoints rewrites its blocks and reloads;*)
(*   - "filter": the event filter removes the blocks of a deleted          *)
(*     Endpoints and reloads;                                              *)
(*   - "poll": SyncHealthCheck reloads when nginx does not answer.         *)
(*                                                                         *)
(* A file is, per service, the sequence of its blocks; a block is the      *)
(* address list it was built from.  Reading the configuration              *)
(* (crossplane.Parse) and writing one file (os.WriteFile) are single steps.*)
(***************************************************************************)
EXTENDS Naturals, Sequences, FiniteSets

CONSTANTS Svcs,       \* the Endpoints objects, svcname_namespace
          EpValues,   \* what an Endpoints object may hold
          Deletes,    \* may an Endpoints object be deleted?
          MaxChanges  \* changes of Endpoints and crashes of nginx

Files == {"http", "stream"}

\* The label hc_enabled, the label hc_enabled_allports, the files the ports
\* (or hc_protocol_port) ask for, and the address list: 0 is the empty one.
ASSUME ConfAssumption ==
    /\ EpValues \subseteq [hc : {"true", "false", "none"}, allPorts : BOOLEAN,
                           files : SUBSET Files, addrs : Nat]
    /\ \A v \in EpValues : ~v.allPorts => Cardinality(v.files) = 1
    /\ Deletes \in BOOLEAN /\ MaxChanges \in Nat

VARIABLES ep,       \* the Endpoints; the empty set is a deleted one
          events,   \* their events, not yet filtered, in order
          queue,    \* keys in the work queue
          file,     \* the upstream files
          thread,   \* pc and locals of the three threads
          up,       \* nginx runs
          running,  \* the configuration it runs
          hup,      \* a reload signal is on its way to the master process
          changes

cvars == <<ep, events, queue, file, thread, up, running, hup, changes>>
nginxVars == <<up, running, hup>>

Threads == {"worker", "filter", "poll"}
Objects == {{v} : v \in EpValues} \cup {{}}
NoBlocks == [f \in Files |-> [s \in Svcs |-> <<>>]]
Idle == [pc |-> "idle", ep |-> {}, svc |-> {}, parsed |-> NoBlocks, todo |-> {}]

\* addServerInNginxUpstream has no address for the one port, or no port.
AddFails(v) == IF v.allPorts THEN v.files = {} ELSE v.addrs = 0
Wanted(v) == IF v.addrs = 0 THEN {} ELSE v.files

\* The blocks the Endpoints of a service ask for.
Expected(s, f) == IF \E v \in ep[s] : v.hc = "true" /\ f \in Wanted(v)
                  THEN <<(CHOOSE v \in ep[s] : TRUE).addrs>> ELSE <<>>

\* At rest: nginx runs what the Endpoints ask for, and only an Endpoints that
\* is refused is tried again and again.
ConfInit ==
    /\ ep \in [Svcs -> Objects] /\ events = <<>>
    /\ queue = {s \in Svcs : \E v \in ep[s] : v.hc = "true" /\ AddFails(v)}
    /\ file = [f \in Files |-> [s \in Svcs |-> Expected(s, f)]]
    /\ thread = [t \in Threads |-> Idle]
    /\ up = TRUE /\ running = file /\ hup = FALSE /\ changes = 0

Goto(t, pc) == thread' = [thread EXCEPT ![t].pc = pc]

-----------------------------------------------------------------------------
\* An Endpoints object is created, changed or deleted.
ep_changes(s, object) ==
    /\ changes < MaxChanges /\ changes' = changes + 1
    /\ object # ep[s] /\ (object = {} => Deletes)
    /\ ep' = [ep EXCEPT ![s] = object]
    /\ events' = Append(events, [svc |-> s, deleted |-> object = {}])
    /\ UNCHANGED <<queue, file, thread, nginxVars>>

\* The event filter: Create and Update let the key pass, Delete works first.
filter_event ==
    /\ thread["filter"].pc = "idle" /\ events # <<>>
    /\ LET event == Head(events)
       IN IF event.deleted
          THEN /\ thread' = [thread EXCEPT !["filter"] =
                              [Idle EXCEPT !.pc = "del", !.svc = {event.svc}]]
               /\ UNCHANGED queue
          ELSE queue' = queue \cup {event.svc} /\ UNCHANGED thread
    /\ events' = Tail(events)
    /\ UNCHANGED <<ep, file, nginxVars, changes>>

\* Variant: an Endpoints whose checks are disabled is not looked at.
Reconcile_enabled(s) ==
    /\ thread["worker"].pc = "idle" /\ s \in queue
    /\ queue' = queue \ {s}
    /\ IF \E v \in ep[s] : v.hc = "true"
       THEN thread' = [thread EXCEPT !["worker"] =
                         [Idle EXCEPT !.pc = "del", !.svc = {s}, !.ep = ep[s]]]
       ELSE UNCHANGED thread
    /\ UNCHANGED <<ep, events, file, nginxVars, changes>>

\* Reconcile of one key; without the Endpoints or its label nothing is done.
Reconcile(s) ==
    /\ thread["worker"].pc = "idle" /\ s \in queue
    /\ queue' = queue \ {s}
    /\ IF \E v \in ep[s] : v.hc # "none"
       THEN thread' = [thread EXCEPT !["worker"] =
                         [Idle EXCEPT !.pc = "del", !.svc = {s}, !.ep = ep[s]]]
       ELSE UNCHANGED thread
    /\ UNCHANGED <<ep, events, file, nginxVars, changes>>

-----------------------------------------------------------------------------
HasBlocks(blocks) == \E s \in Svcs : blocks[s] # <<>>

\* Variant: only the file of the http part is cleaned.
delServerInNginxUpstream_http(t) ==
    /\ thread[t].pc = "del"
    /\ thread' = [thread EXCEPT ![t].pc = "del_write", ![t].parsed = file,
                                ![t].todo = {f \in {"http"} : HasBlocks(file[f])}]
    /\ UNCHANGED <<ep, events, queue, file, nginxVars, changes>>

\* delServerInNginxUpstream reads the configuration ...
delServerInNginxUpstream(t) ==
    /\ thread[t].pc = "del"
    /\ thread' = [thread EXCEPT ![t].pc = "del_write", ![t].parsed = file,
                                ![t].todo = {f \in Files : HasBlocks(file[f])}]
    /\ UNCHANGED <<ep, events, queue, file, nginxVars, changes>>

\* ... and writes each upstream file that is not empty without the service.
del_write(t, f) ==
    /\ thread[t].pc = "del_write" /\ f \in thread[t].todo
    /\ file' = [file EXCEPT ![f] = [s \in Svcs |->
                  IF s \in thread[t].svc THEN <<>> ELSE thread[t].parsed[f][s]]]
    /\ thread' = [thread EXCEPT ![t].todo = @ \ {f}]
    /\ UNCHANGED <<ep, events, queue, nginxVars, changes>>

\* Reconcile adds the blocks again when the checks are enabled.
del_done(t) ==
    /\ thread[t].pc = "del_write" /\ thread[t].todo = {}
    /\ thread' = [thread EXCEPT ![t].parsed = NoBlocks, ![t].pc =
                    IF \E v \in thread[t].ep : v.hc = "true" THEN "add" ELSE "reload"]
    /\ UNCHANGED <<ep, events, queue, file, nginxVars, changes>>

\* addServerInNginxUpstream builds the blocks, or fails: the key is queued
\* again, and nginx is not reloaded.
addServerInNginxUpstream ==
    /\ thread["worker"].pc = "add"
    /\ \E v \in thread["worker"].ep :
         IF AddFails(v)
         THEN /\ thread' = [thread EXCEPT !["worker"] = Idle]
              /\ queue' = queue \cup thread["worker"].svc
         ELSE /\ thread' = [thread EXCEPT !["worker"].pc = "parse",
                                          !["worker"].todo = Wanted(v)]
              /\ UNCHANGED queue
    /\ UNCHANGED <<ep, events, file, nginxVars, changes>>

\* writeNginxUpstream, for http before stream, reads the configuration again,
writeNginxUpstream ==
    /\ thread["worker"].pc = "parse"
    /\ thread' = IF thread["worker"].todo = {}
                 THEN [thread EXCEPT !["worker"].pc = "reload"]
                 ELSE [thread EXCEPT !["worker"].pc = "write", !["worker"].parsed = file]
    /\ UNCHANGED <<ep, events, queue, file, nginxVars, changes>>

\* Variant: the file is written with the new block alone.
writeCrossplane_alone(f) ==
    /\ thread["worker"].pc = "write" /\ f \in thread["worker"].todo
    /\ \E v \in thread["worker"].ep :
         file' = [file EXCEPT ![f] = [s \in thread["worker"].svc |-> <<v.addrs>>]]
    /\ thread' = [thread EXCEPT !["worker"].pc = "parse", !["worker"].todo = @ \ {f}]
    /\ UNCHANGED <<ep, events, queue, nginxVars, changes>>

\* appends the block and writes the file.
writeCrossplane(f) ==
    /\ thread["worker"].pc = "write" /\ f \in thread["worker"].todo
    /\ f = "stream" => "http" \notin thread["worker"].todo
    /\ \E s \in thread["worker"].svc, v \in thread["worker"].ep :
         file' = [file EXCEPT ![f] =
                    [thread["worker"].parsed[f] EXCEPT ![s] = Append(@, v.addrs)]]
    /\ thread' = [thread EXCEPT !["worker"].pc = "parse", !["worker"].todo = @ \ {f},
                                !["worker"].parsed = NoBlocks]
    /\ UNCHANGED <<ep, events, queue, nginxVars, changes>>

-----------------------------------------------------------------------------
\* nginx refuses a configuration that defines an upstream twice.
Acceptable == \A f \in Files, s \in Svcs : Len(file[f][s]) <= 1

\* A thread is through with nginx.  Reconcile returns an error, and its key is
\* queued again; the filter lets the key pass; the poll does not look.
Done(t, ok) ==
    /\ thread' = [thread EXCEPT ![t] = Idle]
    /\ queue' = IF t = "worker" /\ ok THEN queue ELSE queue \cup thread[t].svc

\* reloadNgx: "nginx -s reload" tests the configuration and sends a signal.
reloadNgx(t) ==
    /\ thread[t].pc = "reload"
    /\ IF Acceptable /\ up
       THEN Done(t, TRUE) /\ hup' = TRUE
       ELSE Goto(t, "stop") /\ UNCHANGED <<queue, hup>>
    /\ UNCHANGED <<ep, events, file, up, running, changes>>

\* Variant: nginx is not started when it could not be stopped.
restartNgx_no_start(t) ==
    /\ thread[t].pc = "stop"
    /\ Done(t, TRUE)
    /\ IF Acceptable /\ up THEN up' = FALSE /\ hup' = FALSE ELSE UNCHANGED <<up, hup>>
    /\ UNCHANGED <<ep, events, file, running, changes>>

\* restartNgx: when "nginx -s stop" works, nginx is not started again here.
restartNgx(t) ==
    /\ thread[t].pc = "stop"
    /\ IF Acceptable /\ up
       THEN Done(t, TRUE) /\ up' = FALSE /\ hup' = FALSE
       ELSE Goto(t, "start") /\ UNCHANGED <<queue, up, hup>>
    /\ UNCHANGED <<ep, events, file, running, changes>>

\* startNgx: fails on a bad configuration, or when nginx runs by now.
startNgx(t) ==
    /\ thread[t].pc = "start"
    /\ IF Acceptable /\ ~up
       THEN Done(t, TRUE) /\ up' = TRUE /\ running' = file
       ELSE Done(t, FALSE) /\ UNCHANGED <<up, running>>
    /\ UNCHANGED <<ep, events, file, hup, changes>>

\* The master process reads the files when the signal arrives, and keeps its
\* configuration when it does not like them.
master_reload ==
    /\ hup /\ hup' = FALSE
    /\ running' = IF Acceptable THEN file ELSE running
    /\ UNCHANGED <<ep, events, queue, file, thread, up, changes>>

nginx_crashes ==
    /\ changes < MaxChanges /\ changes' = changes + 1
    /\ up /\ up' = FALSE /\ hup' = FALSE
    /\ UNCHANGED <<ep, events, queue, file, thread, running>>

\* SyncHealthCheck: "/status" does not answer.
SyncHealthCheck ==
    /\ thread["poll"].pc = "idle" /\ ~up
    /\ Goto("poll", "reload")
    /\ UNCHANGED <<ep, events, queue, file, nginxVars, changes>>

-----------------------------------------------------------------------------
NginxSteps(t) == reloadNgx(t) \/ restartNgx(t) \/ startNgx(t)
DelSteps(t) ==
    \/ delServerInNginxUpstream(t) \/ del_done(t)
    \/ \E f \in Files : del_write(t, f)
WorkerSteps ==
    \/ DelSteps("worker") \/ NginxSteps("worker")
    \/ addServerInNginxUpstream \/ writeNginxUpstream
    \/ \E f \in Files : writeCrossplane(f)
FilterSteps == filter_event \/ DelSteps("filter") \/ NginxSteps("filter")
PollSteps == SyncHealthCheck \/ NginxSteps("poll")

ConfNext ==
    \/ \E s \in Svcs, object \in Objects : ep_changes(s, object)
    \/ \E s \in Svcs : Reconcile(s)
    \/ WorkerSteps \/ FilterSteps \/ PollSteps
    \/ master_reload \/ nginx_crashes

ConfSpec == ConfInit /\ [][ConfNext]_cvars

\* The threads run, the signal arrives, and the work queue is served in order,
\* so that no key waits for ever behind one that fails again and again.
ConfFairSpec ==
    /\ ConfSpec
    /\ WF_cvars(WorkerSteps) /\ WF_cvars(FilterSteps) /\ WF_cvars(PollSteps)
    /\ WF_cvars(master_reload) /\ \A s \in Svcs : SF_cvars(Reconcile(s))

-----------------------------------------------------------------------------
Blocks == [Files -> [Svcs -> Seq(Nat)]]
Places == {"idle", "del", "del_write", "add", "parse", "write", "reload", "stop",
           "start"}
Locals == [pc : Places, ep : Objects, svc : SUBSET Svcs, parsed : Blocks,
           todo : SUBSET Files]

\* Type invariant of the cluster, the files, the threads and nginx.
ConfTypeOK ==
    /\ ep \in [Svcs -> Objects] /\ queue \subseteq Svcs
    /\ events \in Seq([svc : Svcs, deleted : BOOLEAN])
    /\ file \in Blocks /\ running \in Blocks
    /\ thread \in [Threads -> Locals]
    /\ up \in BOOLEAN /\ hup \in BOOLEAN /\ changes \in 0..MaxChanges

\* No Endpoints object is deleted: Reconcile alone writes the files.
WithoutDeletions == [](\A i \in DOMAIN events : ~events[i].deleted)

\* While Reconcile alone writes the files, they never define an upstream twice:
\* delServerInNginxUpstream leaves nothing addServerInNginxUpstream would repeat.
NoUpstreamTwice == WithoutDeletions => []Acceptable

\* nginx runs the blocks the Endpoints of s ask for; an Endpoints that
\* addServerInNginxUpstream refuses, or that has lost its label, asks for nothing
\* in particular.
Follows(s) ==
    \/ \E v \in ep[s] : v.hc = "none" \/ AddFails(v)
    \/ \A f \in Files : running[f][s] = Expected(s, f)

\* "Move the current state of the cluster closer to the desired state": when
\* the Endpoints stop changing, nginx ends up running the blocks they ask for,
\* whatever crashes came before, as long as the event filter does not write the
\* files beside Reconcile.
NginxFollowsEndpoints ==
    WithoutDeletions => \A s \in Svcs : <>[](up /\ Follows(s))

\* With an acceptable configuration nginx ends up running for good, though
\* three threads reload, stop and start it: a restartNgx that stops it, or a
\* startNgx that comes too late, is made up for by a later poll.
NginxStaysUp == <>[]Acceptable => <>[]up
=============================================================================
