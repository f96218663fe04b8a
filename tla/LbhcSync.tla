------------------------------ MODULE LbhcSync ------------------------------
(***************************************************************************)
(* The health-check loop of the controller (controllers/lbhc): the node's  *)
(* Lbhc object records which backends of a service nginx reports down, and *)
(* the addresses of the service's Endpoints follow it.  Four threads of    *)
(* control share the API server:                                           *)
(*   - SyncHealthCheck, a goroutine that polls nginx's /status?status=down *)
(*     and writes the Lbhc (eventOpt, noneEventOpt);                       *)
(*   - Reconcile, the one worker of the queue, that moves addresses        *)
(*     between Addresses and NotReadyAddresses (modifyEpBaseOnLbhc) and    *)
(*     then forgets the recovered ones (cleanHcBaseEpUpStatus);            *)
(*   - the event filter, that on a change of the Endpoints withdraws again *)
(*     what the Lbhc says is down (syncLbhcWithEndpoints);                 *)
(*   - the informer, that brings the cache LbHcClient.Get reads up to      *)
(*     date, version by version.                                           *)
(*                                                                         *)
(* One service is modelled; its DownEpList entries are "down" (false),     *)
(* "up" (true) or "none" (no entry).  A resourceVersion matters only when  *)
(* it is compared with the server's, so a copy carries whether it still is *)
(* the server's version (current): an Update of a copy that is not current *)
(* conflicts, and RetryOnConflict sends the same copy again, so it fails.  *)
(***************************************************************************)
EXTENDS Naturals, Sequences, FiniteSets

CONSTANTS Endpoints,  \* the ip:port backends of the service
          Rising,     \* TRUE: rise_count > 1, a down peer may show Rise > 0
          Faulty,     \* TRUE: an Update may fail for another reason
          Prompt,     \* TRUE: the cache is up to date when a poll begins
          MaxLag,     \* how many versions the informer may be behind
          MaxEvents,  \* how many Endpoints events may wait for the filter
          MaxFaults   \* such failures, failed Creates, foreign writes, restarts

ASSUME SyncAssumption ==
    /\ Rising \in BOOLEAN /\ Faulty \in BOOLEAN /\ Prompt \in BOOLEAN
    /\ MaxLag \in Nat \ {0} /\ MaxEvents \in Nat /\ MaxFaults \in Nat

VARIABLES peer,       \* what nginx's shared memory says of each backend
          holder,     \* checkSvcIsValid: this node answers for the service
          exists,     \* the Lbhc object has been created
          lbhc,       \* its DownEpList on the server
          known,      \* the cache holds an Lbhc
          cache,      \* the DownEpList in the cache
          watch,      \* the versions on their way to the cache
          GlobalLbhc, \* the copy kept between two polls
          looped,     \* GlobalSyncLoop > 0
          sync,       \* SyncHealthCheck: pc, payload, local lbhc, entries to do
          pending,    \* the Lbhc's key is in the work queue
          rec,        \* Reconcile: pc, local lbhc, entries to do, Endpoints copy
          ready,      \* is the address in Addresses (or in NotReadyAddresses)
          events,     \* Endpoints events waiting for the filter
          filter,     \* syncLbhcWithEndpoints: entries to do, Endpoints copy
          faults      \* bounded environment steps taken so far

lbhcVars == <<exists, lbhc, known, cache, watch, pending>>
syncVars == <<GlobalLbhc, looped, sync>>
epVars == <<ready, events, filter>>
vars == <<peer, holder, exists, lbhc, known, cache, watch, GlobalLbhc, looped,
          sync, pending, rec, ready, events, filter, faults>>

PeerStates == {"up", "down", "rising"}
Marks == {"none", "down", "up"}
Specs == [Endpoints -> Marks]
Copies == [spec : Specs, current : BOOLEAN]
NoEntry == [e \in Endpoints |-> "none"]
NoCopy == [spec |-> NoEntry, current |-> FALSE]
AllUp == [e \in Endpoints |-> "up"]

\* The Endpoints object a thread has read in order to move the address of one
\* entry; while it is current it is the server's, so only its target is kept.
EpCopies == [for : SUBSET Endpoints, current : BOOLEAN]
NoEp == [for |-> {}, current |-> FALSE]

\* The states of the three threads.
SyncStates == [pc : {"idle", "event", "judge", "none", "update"},
               payload : [Endpoints -> PeerStates], lbhc : Copies,
               todo : SUBSET Endpoints]
RecStates == [pc : {"idle", "restore", "withdraw"}, lbhc : Copies,
              todo : SUBSET Endpoints, ep : EpCopies]
FilterStates == [todo : SUBSET Endpoints, ep : EpCopies]

Marked(spec, mark) == {e \in Endpoints : spec[e] = mark}

\* The page for status=down lists every peer that is not up.
Listed(payload) == {e \in Endpoints : payload[e] # "up"}

-----------------------------------------------------------------------------
IdleSync == [pc |-> "idle", payload |-> AllUp, lbhc |-> NoCopy, todo |-> {}]
IdleRec == [pc |-> "idle", lbhc |-> NoCopy, todo |-> {}, ep |-> NoEp]
IdleFilter == [todo |-> {}, ep |-> NoEp]

SyncInit ==
    /\ peer = AllUp /\ holder \in BOOLEAN
    /\ exists = FALSE /\ lbhc = NoEntry
    /\ known = FALSE /\ cache = NoEntry /\ watch = <<>>
    /\ GlobalLbhc = NoCopy /\ looped = FALSE /\ sync = IdleSync
    /\ pending = FALSE /\ rec = IdleRec
    /\ ready = [e \in Endpoints |-> TRUE]
    /\ events = 0 /\ filter = IdleFilter /\ faults = 0

\* LbHcClient.Get: the cache's version.
Cached == [spec |-> cache, current |-> known /\ watch = <<>>]

\* An accepted write of the Lbhc: the informer will see it.
Stored(spec) ==
    /\ Len(watch) < MaxLag
    /\ lbhc' = spec
    /\ watch' = Append(watch, spec)

\* An Update that fails: a conflict, or an error of the API server.
Refused(current) ==
    \/ ~current /\ UNCHANGED faults
    \/ Faulty /\ faults < MaxFaults /\ faults' = faults + 1

\* An accepted write of the Endpoints that moves one address.
Moved(e, isReady) ==
    /\ ready' = [ready EXCEPT ![e] = isReady]
    /\ events' = IF events < MaxEvents THEN events + 1 ELSE events

-----------------------------------------------------------------------------
\* SyncHealthCheck asks nginx for the peers that are down.  A failed request
\* or an answer that does not parse changes nothing here.
SyncHealthCheck ==
    /\ sync.pc = "idle"
    /\ Prompt => watch = <<>>
    /\ sync' = [sync EXCEPT !.payload = peer,
                            !.pc = IF peer = AllUp THEN "none" ELSE "event"]
    /\ UNCHANGED <<peer, holder, lbhcVars, GlobalLbhc, looped, rec, epVars, faults>>

\* eventOpt reads (or creates) the Lbhc and keeps a copy.
eventOpt ==
    /\ sync.pc = "event"
    /\ LET create == ~known /\ ~exists
           got == IF create THEN [NoCopy EXCEPT !.current = TRUE] ELSE Cached
       IN /\ IF create THEN exists' = TRUE /\ Stored(NoEntry)
                       ELSE UNCHANGED <<exists, lbhc, watch>>
          /\ GlobalLbhc' = got
          /\ sync' = [sync EXCEPT !.pc = "judge", !.lbhc = got, !.todo = Listed(sync.payload)]
    /\ UNCHANGED <<peer, holder, known, cache, pending, looped, rec, epVars, faults>>

\* The same when the Lbhc cannot be created: the poll goes on with an object
\* the server does not have.
eventOpt_not_created ==
    /\ sync.pc = "event" /\ ~known /\ ~exists
    /\ faults < MaxFaults /\ faults' = faults + 1
    /\ GlobalLbhc' = NoCopy
    /\ sync' = [sync EXCEPT !.pc = "judge", !.lbhc = NoCopy, !.todo = Listed(sync.payload)]
    /\ UNCHANGED <<peer, holder, lbhcVars, looped, rec, epVars>>

\* The node holds the lease of the load balancer, or leads "lbhc", when the
\* entry is looked at.
checkSvcIsValid == holder

\* Variant: the status nginx reports is stored as it is.
EntryMarks_raw(spec, e, payload) == [spec EXCEPT ![e] = payload[e]]

\* What one entry of the page does to the DownEpList: a peer that is down is
\* set to false, one that is rising is skipped; when this node does not answer
\* for the service, all the entries of the service are dropped from the copy.
EntryMarks(spec, e, payload) ==
    CASE ~checkSvcIsValid -> NoEntry
      [] checkSvcIsValid /\ payload[e] = "down" -> [spec EXCEPT ![e] = "down"]
      [] OTHER -> spec

\* One turn of the loops of eventOpt; the lease may move between two turns.
eventOpt_entry(e) ==
    /\ sync.pc = "judge" /\ e \in sync.todo
    /\ sync' = [sync EXCEPT !.todo = @ \ {e},
                            !.lbhc.spec = EntryMarks(@, e, sync.payload)]
    /\ UNCHANGED <<peer, holder, lbhcVars, GlobalLbhc, looped, rec, epVars, faults>>

\* Variant: only the entries that are new are recorded.
Unrecorded_known(spec, payload) ==
    [e \in Endpoints |->
        IF spec[e] = "down" /\ GlobalLbhc.spec[e] = "down" THEN "up" ELSE spec[e]]

\* A false entry that no turn has recorded becomes true: recorded are the peers
\* that are down, and rising ones only where the entries have been dropped.
Unrecorded(spec, payload) ==
    [e \in Endpoints |->
        IF spec[e] = "down" /\ payload[e] # "down" THEN "up" ELSE spec[e]]

\* compareMaps finds a difference only at a key of the new map.
compareMaps(new, old) ==
    \A e \in Endpoints : new[e] # "none" => new[e] = old[e]

\* After the loops eventOpt compares its copy with what it has read, of which
\* GlobalLbhc is a copy, and goes on to the Update if they differ.
eventOpt_compare ==
    /\ sync.pc = "judge" /\ sync.todo = {}
    /\ LET marks == Unrecorded(sync.lbhc.spec, sync.payload)
       IN sync' = IF compareMaps(marks, GlobalLbhc.spec) THEN IdleSync
                  ELSE [IdleSync EXCEPT !.pc = "update",
                          !.lbhc = [sync.lbhc EXCEPT !.spec = marks]]
    /\ looped' = TRUE
    /\ UNCHANGED <<peer, holder, lbhcVars, GlobalLbhc, rec, epVars, faults>>

Recovered(spec) == [e \in Endpoints |-> IF spec[e] = "down" THEN "up" ELSE spec[e]]

\* noneEventOpt, up to its Update.  The first time the Lbhc is read; later the
\* kept copy is used, and since assigning the struct shares its maps, the kept
\* copy is marked too, before the Update.
noneEventOpt ==
    /\ sync.pc = "none"
    /\ IF ~looped /\ ~known
       THEN sync' = IdleSync /\ UNCHANGED <<GlobalLbhc, looped>>
       ELSE LET got == IF looped THEN GlobalLbhc ELSE Cached
                marked == [got EXCEPT !.spec = Recovered(got.spec)]
            IN /\ looped' = TRUE
               /\ GlobalLbhc' = IF looped THEN marked ELSE got
               /\ sync' = IF Marked(got.spec, "down") = {} THEN IdleSync
                          ELSE [IdleSync EXCEPT !.pc = "update", !.lbhc = marked]
    /\ UNCHANGED <<peer, holder, lbhcVars, rec, epVars, faults>>

\* The Update of eventOpt or noneEventOpt; GlobalLbhc follows only a success.
sync_update ==
    /\ sync.pc = "update"
    /\ sync' = IdleSync
    /\ \/ /\ sync.lbhc.current
          /\ Stored(sync.lbhc.spec)
          /\ GlobalLbhc' = sync.lbhc
          /\ rec' = [rec EXCEPT !.lbhc.current = FALSE]
          /\ UNCHANGED faults
       \/ /\ Refused(sync.lbhc.current)
          /\ UNCHANGED <<lbhc, watch, GlobalLbhc, rec>>
    /\ UNCHANGED <<peer, holder, exists, known, cache, pending, looped, epVars>>

-----------------------------------------------------------------------------
\* The informer delivers the next version of the Lbhc; the event filter lets
\* every new version through, and the key enters the work queue.
deliver ==
    /\ watch # <<>>
    /\ cache' = Head(watch) /\ watch' = Tail(watch)
    /\ known' = TRUE /\ pending' = TRUE
    /\ UNCHANGED <<peer, holder, exists, lbhc, syncVars, rec, epVars, faults>>

\* Reconcile reads the Lbhc; the recovered entries come first.
Reconcile ==
    /\ rec.pc = "idle" /\ pending
    /\ pending' = FALSE
    /\ rec' = [pc |-> "restore", lbhc |-> Cached,
               todo |-> Marked(cache, "up"), ep |-> NoEp]
    /\ UNCHANGED <<peer, holder, exists, lbhc, known, cache, watch, syncVars, epVars, faults>>

\* modifyEpInAddressList and modifyEpInNotReadyAddressList (and the tests
\* before them) read the Endpoints and move the address unless it is moved.
rec_read_ep(e) ==
    /\ rec.ep.for = {} /\ e \in rec.todo
    /\ rec' = IF ready[e] = (rec.pc = "restore")
              THEN [rec EXCEPT !.todo = @ \ {e}]
              ELSE [rec EXCEPT !.ep = [for |-> {e}, current |-> TRUE]]
    /\ UNCHANGED <<peer, holder, lbhcVars, syncVars, epVars, faults>>

\* Their Update; a failure is logged and nil is returned.
rec_update_ep(e) ==
    /\ rec.ep.for = {e}
    /\ rec' = [rec EXCEPT !.todo = @ \ {e}, !.ep = NoEp]
    /\ \/ /\ rec.ep.current
          /\ Moved(e, rec.pc = "restore")
          /\ filter' = [filter EXCEPT !.ep.current = FALSE]
          /\ UNCHANGED faults
       \/ Refused(rec.ep.current) /\ UNCHANGED epVars
    /\ UNCHANGED <<peer, holder, lbhcVars, syncVars>>

\* After the sleep, the entries that are down.
rec_withdraw ==
    /\ rec.pc = "restore" /\ rec.todo = {}
    /\ rec' = [rec EXCEPT !.pc = "withdraw", !.todo = Marked(rec.lbhc.spec, "down")]
    /\ UNCHANGED <<peer, holder, lbhcVars, syncVars, epVars, faults>>

Cleaned(spec) == [e \in Endpoints |-> IF spec[e] = "up" THEN "none" ELSE spec[e]]

\* Variant: the Update is sent without a resourceVersion, the last one wins.
cleanHcBaseEpUpStatus_forced ==
    /\ rec.pc = "withdraw" /\ rec.todo = {}
    /\ rec' = IdleRec
    /\ IF Marked(rec.lbhc.spec, "up") # {}
       THEN /\ Stored(Cleaned(rec.lbhc.spec))
            /\ GlobalLbhc' = [GlobalLbhc EXCEPT !.current = FALSE]
            /\ sync' = [sync EXCEPT !.lbhc.current = FALSE]
       ELSE UNCHANGED <<lbhc, watch, GlobalLbhc, sync>>
    /\ UNCHANGED <<peer, holder, exists, known, cache, pending, looped, epVars, faults>>

\* cleanHcBaseEpUpStatus drops the recovered entries of the copy Reconcile
\* read and updates the Lbhc with it; a failure is logged.
cleanHcBaseEpUpStatus ==
    /\ rec.pc = "withdraw" /\ rec.todo = {}
    /\ rec' = IdleRec
    /\ \/ /\ Marked(rec.lbhc.spec, "up") # {} /\ rec.lbhc.current
          /\ Stored(Cleaned(rec.lbhc.spec))
          /\ GlobalLbhc' = [GlobalLbhc EXCEPT !.current = FALSE]
          /\ sync' = [sync EXCEPT !.lbhc.current = FALSE]
          /\ UNCHANGED faults
       \/ /\ \/ Marked(rec.lbhc.spec, "up") = {} /\ UNCHANGED faults
             \/ Marked(rec.lbhc.spec, "up") # {} /\ Refused(rec.lbhc.current)
          /\ UNCHANGED <<lbhc, watch, GlobalLbhc, sync>>
    /\ UNCHANGED <<peer, holder, exists, known, cache, pending, looped, epVars>>

-----------------------------------------------------------------------------
\* Variant: the event filter lets a change of the Endpoints pass.
syncLbhcWithEndpoints_ignored ==
    /\ events > 0 /\ filter = IdleFilter
    /\ events' = events - 1
    /\ UNCHANGED <<peer, holder, lbhcVars, syncVars, rec, ready, filter, faults>>

\* The event filter handles a change of the Endpoints: on the node that
\* answers for the service, syncLbhcWithEndpoints reads the Lbhc.
syncLbhcWithEndpoints ==
    /\ events > 0 /\ filter = IdleFilter
    /\ events' = events - 1
    /\ filter' = IF holder THEN [filter EXCEPT !.todo = Marked(cache, "down")]
                 ELSE filter
    /\ UNCHANGED <<peer, holder, lbhcVars, syncVars, rec, ready, faults>>

filter_read_ep(e) ==
    /\ filter.ep.for = {} /\ e \in filter.todo
    /\ filter' = IF ready[e] THEN [filter EXCEPT !.ep = [for |-> {e}, current |-> TRUE]]
                 ELSE [filter EXCEPT !.todo = @ \ {e}]
    /\ UNCHANGED <<peer, holder, lbhcVars, syncVars, rec, ready, events, faults>>

filter_update_ep(e) ==
    /\ filter.ep.for = {e}
    /\ filter' = [todo |-> filter.todo \ {e}, ep |-> NoEp]
    /\ \/ /\ filter.ep.current
          /\ Moved(e, FALSE)
          /\ rec' = [rec EXCEPT !.ep.current = FALSE]
          /\ UNCHANGED faults
       \/ Refused(filter.ep.current) /\ UNCHANGED <<ready, events, rec>>
    /\ UNCHANGED <<peer, holder, lbhcVars, syncVars>>

-----------------------------------------------------------------------------
\* nginx's health check of a backend (module PeerStatus): with rise_count > 1 a
\* peer that is down shows its successes before it is up.
peer_changes(e) ==
    /\ peer' \in {[peer EXCEPT ![e] = s] : s \in
                    CASE peer[e] = "up" -> {"down"}
                      [] peer[e] = "down" -> {IF Rising THEN "rising" ELSE "up"}
                      [] OTHER -> {"up", "down"}}
    /\ UNCHANGED <<holder, lbhcVars, syncVars, rec, epVars, faults>>

\* The kube-vip lease of the service, or the leadership of "lbhc", moves.
lease_moves ==
    /\ holder' = ~holder
    /\ UNCHANGED <<peer, lbhcVars, syncVars, rec, epVars, faults>>

\* "other programe modified the endpoints": the address is put back in service.
foreign_write(e) ==
    /\ faults < MaxFaults /\ faults' = faults + 1
    /\ ~ready[e] /\ Moved(e, TRUE)
    /\ rec' = [rec EXCEPT !.ep.current = FALSE]
    /\ filter' = [filter EXCEPT !.ep.current = FALSE]
    /\ UNCHANGED <<peer, holder, lbhcVars, syncVars>>

\* The process dies and starts again (losing the leadership is fatal): what it
\* held in memory is gone, and the informer lists the Lbhc, which is an event.
restart ==
    /\ faults < MaxFaults /\ faults' = faults + 1
    /\ known' = exists /\ cache' = lbhc /\ watch' = <<>> /\ pending' = exists
    /\ GlobalLbhc' = NoCopy /\ looped' = FALSE /\ sync' = IdleSync
    /\ rec' = IdleRec /\ filter' = IdleFilter /\ events' = 0
    /\ UNCHANGED <<peer, holder, exists, lbhc, ready>>

-----------------------------------------------------------------------------
SyncLoop ==
    \/ SyncHealthCheck \/ eventOpt \/ eventOpt_not_created \/ eventOpt_compare
    \/ \E e \in Endpoints : eventOpt_entry(e)
    \/ noneEventOpt \/ sync_update
RecSteps ==
    \/ Reconcile \/ rec_withdraw \/ cleanHcBaseEpUpStatus
    \/ \E e \in Endpoints : rec_read_ep(e) \/ rec_update_ep(e)
FilterSteps ==
    \/ syncLbhcWithEndpoints
    \/ \E e \in Endpoints : filter_read_ep(e) \/ filter_update_ep(e)
Environment ==
    \/ lease_moves \/ restart
    \/ \E e \in Endpoints : peer_changes(e) \/ foreign_write(e)

SyncNext == SyncLoop \/ deliver \/ RecSteps \/ FilterSteps \/ Environment

SyncSpec == SyncInit /\ [][SyncNext]_vars

\* The poll is repeated for ever (wait.Until), the informer delivers, the
\* worker serves its queue and the filter its events.
Fairness ==
    /\ WF_vars(SyncLoop) /\ WF_vars(deliver)
    /\ WF_vars(RecSteps) /\ WF_vars(FilterSteps)

SyncFairSpec == SyncSpec /\ Fairness

-----------------------------------------------------------------------------
\* Type invariant of the controller's, the API server's and nginx's state.
SyncTypeOK ==
    /\ peer \in [Endpoints -> PeerStates] /\ holder \in BOOLEAN
    /\ exists \in BOOLEAN /\ lbhc \in Specs
    /\ known \in BOOLEAN /\ cache \in Specs
    /\ watch \in Seq(Specs) /\ Len(watch) <= MaxLag
    /\ GlobalLbhc \in Copies /\ looped \in BOOLEAN
    /\ sync \in SyncStates /\ pending \in BOOLEAN /\ rec \in RecStates
    /\ ready \in [Endpoints -> BOOLEAN] /\ events \in 0..MaxEvents
    /\ filter \in FilterStates
    /\ faults \in 0..MaxFaults

\* When no backend is down any more, no entry of the Lbhc says that one is:
\* "None down ep, then set status == true" (noneEventOpt).
NoDownMarkRemains ==
    <>[](peer = AllUp) => <>[](Marked(lbhc, "down") = {})
=============================================================================
