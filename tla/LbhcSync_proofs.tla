-------------------------- MODULE LbhcSync_proofs ---------------------------
(***************************************************************************)
(* The optimistic locking of the Lbhc loses no backend that is down, for   *)
(* every number of backends, every lag of the informer and every failure.  *)
(*                                                                         *)
(* A write replaces the whole DownEpList by the writer's copy, so the      *)
(* argument is about the copies: one that still is the server's version    *)
(* (current) has an entry for every backend the server has down.  For the  *)
(* copy of Reconcile that is because it equals the server's; for the two   *)
(* of the poll the entries may already be marked up.  The cache is the     *)
(* server's version once nothing is on its way (CacheInv), which is why a  *)
(* copy read from it then starts equal.                                    *)
(*                                                                         *)
(* The lease may move between any two entries of a poll.  A poll that has  *)
(* always held it forgets nothing; one that has lost it has an empty copy, *)
(* which compareMaps does not take for a change; only one that has lost    *)
(* and regained it may store a copy with entries missing (PollInv).        *)
(***************************************************************************)
EXTENDS MCLbhcSync, TLAPS

\* The copy has an entry for every backend that the Lbhc says is down.
Keeps(copy) == \A e \in Endpoints : lbhc[e] = "down" => copy[e] # "none"

\* The last version on its way to the cache, or the cache itself, is the
\* server's; nothing is stored, delivered or read before the Lbhc is created.
CacheInv ==
    /\ watch # <<>> => watch[Len(watch)] = lbhc
    /\ watch = <<>> /\ known => cache = lbhc
    /\ known \/ watch # <<>> => exists
    /\ ~exists => lbhc = NoEntry

CopyInv ==
    /\ GlobalLbhc.current => exists /\ Keeps(GlobalLbhc.spec)
    /\ sync.lbhc.current => exists /\ sync.pc \in {"judge", "update"}
    /\ rec.lbhc.current => exists /\ rec.lbhc.spec = lbhc

SyncInv == CacheInv /\ CopyInv

\* What the poll under way may store, by the answers of checkSvcIsValid so far.
PollInv ==
    /\ lease \in {"kept", "lost", "regained"}
    /\ sync.pc \notin {"judge", "update"} => lease = "kept"
    /\ sync.lbhc.current /\ lease = "kept" => Keeps(sync.lbhc.spec)
    /\ lease = "lost" => sync.pc = "judge" /\ sync.lbhc.spec = NoEntry

-----------------------------------------------------------------------------
\* What the loops compute are DownEpLists.
LEMMA MarksTyped ==
    ASSUME NEW spec \in Specs, NEW payload \in [Endpoints -> PeerStates],
           NEW e \in Endpoints
    PROVE  EntryMarks(spec, e, payload) \in Specs /\ Unrecorded(spec, payload) \in Specs
BY DEF EntryMarks, Unrecorded, NoEntry, Specs, Marks, PeerStates

\* What noneEventOpt and cleanHcBaseEpUpStatus make of one is one.
LEMMA CleanedTyped ==
    ASSUME NEW spec \in Specs
    PROVE  Recovered(spec) \in Specs /\ Cleaned(spec) \in Specs
BY DEF Recovered, Cleaned, Specs, Marks

\* The idle states of the threads are states.
LEMMA IdleTyped ==
    /\ NoEntry \in Specs /\ AllUp \in [Endpoints -> PeerStates]
    /\ NoCopy \in Copies /\ NoEp \in EpCopies
    /\ IdleSync \in SyncStates /\ IdleRec \in RecStates /\ IdleFilter \in FilterStates
BY DEF NoCopy, NoEp, IdleSync, IdleRec, IdleFilter, Copies, EpCopies, NoEntry,
       AllUp, Specs, Marks, PeerStates, SyncStates, RecStates, FilterStates

\* A write that makes another thread's copy stale changes nothing else of it.
LEMMA StaleTyped ==
    /\ \A c \in Copies : [c EXCEPT !.current = FALSE] \in Copies
    /\ \A s \in SyncStates :
         /\ [s EXCEPT !.lbhc.current = FALSE] \in SyncStates
         /\ [s EXCEPT !.lbhc.current = FALSE].lbhc.current = FALSE
    /\ \A r \in RecStates :
         /\ [r EXCEPT !.lbhc.current = FALSE] \in RecStates
         /\ [r EXCEPT !.lbhc.current = FALSE].lbhc.current = FALSE
         /\ [r EXCEPT !.ep.current = FALSE] \in RecStates
         /\ [r EXCEPT !.ep.current = FALSE].lbhc = r.lbhc
    /\ \A f \in FilterStates : [f EXCEPT !.ep.current = FALSE] \in FilterStates
BY DEF SyncStates, RecStates, FilterStates, Copies, EpCopies

\* An accepted write of the Lbhc is the last one the informer will see.
LEMMA StoredTyped ==
    ASSUME NEW spec \in Specs, watch \in Seq(Specs), Stored(spec)
    PROVE  /\ lbhc' \in Specs /\ watch' \in Seq(Specs) /\ Len(watch') <= MaxLag
           /\ watch' # <<>> /\ watch'[Len(watch')] = lbhc'
BY SyncAssumption DEF Stored

\* An empty watch is a watch.
LEMMA NothingUnderWay == <<>> \in Seq(Specs) /\ Len(<<>>) = 0 /\ Len(<<>>) <= MaxLag
BY SyncAssumption

\* An accepted write of the Endpoints.
LEMMA MovedTyped ==
    ASSUME NEW e \in Endpoints, NEW b \in BOOLEAN, Moved(e, b),
           ready \in [Endpoints -> BOOLEAN], events \in 0..MaxEvents
    PROVE  ready' \in [Endpoints -> BOOLEAN] /\ events' \in 0..MaxEvents
BY SyncAssumption DEF Moved

\* A failed Update costs at most one of the bounded faults.
LEMMA RefusedTyped ==
    ASSUME NEW b, Refused(b), faults \in 0..MaxFaults
    PROVE  faults' \in 0..MaxFaults
BY SyncAssumption DEF Refused

\* The first step of eventOpt, with the Lbhc it has read or created.
Read == IF ~known /\ ~exists THEN [NoCopy EXCEPT !.current = TRUE] ELSE Cached

LEMMA ReadStep ==
    ASSUME SyncTypeOK, eventOpt \/ eventOpt_not_created
    PROVE  /\ sync' \in SyncStates /\ GlobalLbhc' \in Copies
           /\ sync'.pc = "judge" /\ sync.pc = "event"
           /\ sync'.payload = sync.payload /\ sync'.lbhc = GlobalLbhc'
           /\ eventOpt => GlobalLbhc' = Read
           /\ eventOpt_not_created => GlobalLbhc' = NoCopy
<1>1. Read \in Copies /\ NoCopy \in Copies /\ Listed(sync.payload) \in SUBSET Endpoints
  BY IdleTyped DEF Read, Cached, Copies, NoCopy, Listed, SyncTypeOK
<1>2. \E c \in {Read, NoCopy} :
        /\ GlobalLbhc' = c
        /\ eventOpt => c = Read
        /\ eventOpt_not_created => c = NoCopy
        /\ sync' = [sync EXCEPT !.pc = "judge", !.lbhc = c, !.todo = Listed(sync.payload)]
  <2>1. CASE eventOpt /\ ~eventOpt_not_created
    BY <2>1 DEF eventOpt, Read
  <2>2. CASE eventOpt_not_created /\ ~eventOpt
    BY <2>2 DEF eventOpt_not_created
  <2>3. CASE eventOpt /\ eventOpt_not_created
    <3>1. GlobalLbhc' = Read /\ GlobalLbhc' = NoCopy
      BY <2>3 DEF eventOpt, Read, eventOpt_not_created
    <3> QED
      BY <2>3, <3>1 DEF eventOpt_not_created
  <2> QED
    BY <2>1, <2>2, <2>3
<1>3. sync.pc = "event"
  BY DEF eventOpt, eventOpt_not_created
<1>4. PICK c \in {Read, NoCopy} :
        /\ GlobalLbhc' = c
        /\ eventOpt => c = Read
        /\ eventOpt_not_created => c = NoCopy
        /\ sync' = [sync EXCEPT !.pc = "judge", !.lbhc = c, !.todo = Listed(sync.payload)]
  BY <1>2
<1>5. /\ sync' \in SyncStates /\ sync'.pc = "judge"
      /\ sync'.payload = sync.payload /\ sync'.lbhc = c
  BY <1>1, <1>4 DEF SyncTypeOK, SyncStates
<1> QED
  BY <1>1, <1>3, <1>4, <1>5

\* One turn of its loops.
LEMMA EntryStep ==
    ASSUME SyncTypeOK, NEW e \in Endpoints, eventOpt_entry(e)
    PROVE  /\ sync' \in SyncStates /\ sync'.pc = "judge" /\ sync.pc = "judge"
           /\ sync'.payload = sync.payload /\ sync'.todo # sync.todo
           /\ sync'.lbhc.current = sync.lbhc.current
           /\ sync'.lbhc.spec = EntryMarks(sync.lbhc.spec, e, sync.payload)
<1> DEFINE marks == EntryMarks(sync.lbhc.spec, e, sync.payload)
<1>1. marks \in Specs
  BY MarksTyped DEF SyncTypeOK, SyncStates, Copies
<1>2. sync' = [sync EXCEPT !.todo = @ \ {e}, !.lbhc.spec = marks]
  BY DEF eventOpt_entry
<1>3. sync.pc = "judge" /\ e \in sync.todo
  BY DEF eventOpt_entry
<1> HIDE DEF marks
<1>4. sync' = [sync EXCEPT !.todo = sync.todo \ {e}, !.lbhc = [sync.lbhc EXCEPT !.spec = marks]]
  BY <1>2 DEF SyncTypeOK, SyncStates, Copies
<1>5. [sync.lbhc EXCEPT !.spec = marks] \in Copies
  BY <1>1 DEF SyncTypeOK, SyncStates, Copies
<1> QED
  BY <1>3, <1>4, <1>5 DEF SyncTypeOK, SyncStates, Copies, marks

\* Its end: the poll is over, or goes on to the Update with a copy that differs.
LEMMA CompareStep ==
    ASSUME SyncTypeOK, eventOpt_compare
    PROVE  /\ sync' \in SyncStates /\ sync.pc = "judge"
           /\ \/ sync' = IdleSync
              \/ /\ sync'.pc = "update" /\ sync'.todo = {} /\ sync.todo = {}
                 /\ sync'.lbhc.current = sync.lbhc.current
                 /\ sync'.lbhc.spec = Unrecorded(sync.lbhc.spec, sync.payload)
                 /\ ~compareMaps(sync'.lbhc.spec, GlobalLbhc.spec)
<1> DEFINE marks == Unrecorded(sync.lbhc.spec, sync.payload)
<1>1. marks \in Specs
  <2>1. sync.lbhc.spec \in Specs
    BY DEF SyncTypeOK, SyncStates, Copies
  <2> QED
    BY <2>1 DEF Unrecorded, Specs, Marks
<1>2. /\ sync.pc = "judge" /\ sync.todo = {}
      /\ \/ sync' = IdleSync
         \/ /\ ~compareMaps(marks, GlobalLbhc.spec)
            /\ sync' = [IdleSync EXCEPT !.pc = "update",
                           !.lbhc = [sync.lbhc EXCEPT !.spec = marks]]
  BY DEF eventOpt_compare
<1> HIDE DEF marks
<1>3. [sync.lbhc EXCEPT !.spec = marks] \in Copies
  BY <1>1 DEF SyncTypeOK, SyncStates, Copies
<1>4. ASSUME sync' = [IdleSync EXCEPT !.pc = "update",
                        !.lbhc = [sync.lbhc EXCEPT !.spec = marks]]
      PROVE  /\ sync' \in SyncStates /\ sync'.pc = "update" /\ sync'.todo = {}
             /\ sync'.lbhc = [sync.lbhc EXCEPT !.spec = marks]
  BY <1>3, <1>4, IdleTyped DEF IdleSync, SyncStates
<1>5. /\ [sync.lbhc EXCEPT !.spec = marks].spec = marks
      /\ [sync.lbhc EXCEPT !.spec = marks].current = sync.lbhc.current
  BY DEF SyncTypeOK, SyncStates, Copies
<1> QED
  BY <1>2, <1>4, <1>5, IdleTyped DEF marks

\* The copies and queues keep their types: SyncTypeOK is inductive by itself.
THEOREM SyncTypeCorrect == SyncSpec => []SyncTypeOK
<1>1. SyncInit => SyncTypeOK
  <2> SUFFICES ASSUME SyncInit PROVE SyncTypeOK
    OBVIOUS
  <2>1. watch \in Seq(Specs) /\ Len(watch) <= MaxLag
    BY NothingUnderWay DEF SyncInit
  <2>2. events \in 0..MaxEvents /\ faults \in 0..MaxFaults
    BY SyncAssumption DEF SyncInit
  <2>3. /\ peer \in [Endpoints -> PeerStates] /\ lbhc \in Specs /\ cache \in Specs
        /\ GlobalLbhc \in Copies /\ sync \in SyncStates /\ rec \in RecStates
        /\ filter \in FilterStates
    BY IdleTyped DEF SyncInit
  <2>4. /\ holder \in BOOLEAN /\ exists \in BOOLEAN /\ known \in BOOLEAN
        /\ looped \in BOOLEAN /\ pending \in BOOLEAN /\ ready \in [Endpoints -> BOOLEAN]
    BY DEF SyncInit
  <2> QED
    BY <2>1, <2>2, <2>3, <2>4 DEF SyncTypeOK
<1>2. SyncTypeOK /\ [SyncNext]_vars => SyncTypeOK'
  <2> SUFFICES ASSUME SyncTypeOK, [SyncNext]_vars PROVE SyncTypeOK'
    OBVIOUS
  <2> USE IdleTyped DEF SyncTypeOK, lbhcVars, syncVars, epVars
  <2>1. CASE SyncHealthCheck
    BY <2>1 DEF SyncHealthCheck, SyncStates
  <2>2. CASE eventOpt
    <3>1. sync' \in SyncStates /\ GlobalLbhc' \in Copies
      BY <2>2, ReadStep DEF SyncTypeOK
    <3>2. /\ exists' \in BOOLEAN /\ lbhc' \in Specs
          /\ watch' \in Seq(Specs) /\ Len(watch') <= MaxLag
      <4>1. CASE ~known /\ ~exists
        BY <2>2, <4>1, StoredTyped DEF eventOpt
      <4>2. CASE ~(~known /\ ~exists)
        BY <2>2, <4>2 DEF eventOpt
      <4> QED
        BY <4>1, <4>2
    <3> QED
      BY <2>2, <3>1, <3>2 DEF eventOpt
  <2>19. CASE eventOpt_not_created
    <3>1. sync' \in SyncStates /\ GlobalLbhc' \in Copies
      BY <2>19, ReadStep DEF SyncTypeOK
    <3>2. faults' \in 0..MaxFaults
      BY <2>19, SyncAssumption DEF eventOpt_not_created
    <3> QED
      BY <2>19, <3>1, <3>2 DEF eventOpt_not_created
  <2>20. ASSUME NEW e \in Endpoints, eventOpt_entry(e) PROVE SyncTypeOK'
    <3>1. sync' \in SyncStates
      BY <2>20, EntryStep DEF SyncTypeOK
    <3> QED
      BY <2>20, <3>1 DEF eventOpt_entry
  <2>21. CASE eventOpt_compare
    <3>1. sync' \in SyncStates
      BY <2>21, CompareStep DEF SyncTypeOK
    <3> QED
      BY <2>21, <3>1 DEF eventOpt_compare
  <2>3. CASE noneEventOpt
    <3> DEFINE got == IF looped THEN GlobalLbhc ELSE Cached
               marked == [got EXCEPT !.spec = Recovered(got.spec)]
    <3>1. got \in Copies
      BY DEF Cached, Copies
    <3>2. marked \in Copies
      BY <3>1, CleanedTyped DEF Copies
    <3>3. /\ sync' \in {IdleSync, [IdleSync EXCEPT !.pc = "update", !.lbhc = marked]}
          /\ GlobalLbhc' \in {GlobalLbhc, marked, got} /\ looped' \in {looped, TRUE}
      BY <2>3 DEF noneEventOpt
    <3>4. [IdleSync EXCEPT !.pc = "update", !.lbhc = marked] \in SyncStates
      BY <3>2 DEF SyncStates
    <3> QED
      BY <2>3, <3>1, <3>2, <3>3, <3>4 DEF noneEventOpt
  <2>4. CASE sync_update
    <3>1. sync.lbhc \in Copies /\ sync.lbhc.spec \in Specs
      BY DEF SyncStates, Copies
    <3>2. CASE sync.lbhc.current /\ Stored(sync.lbhc.spec) /\ GlobalLbhc' = sync.lbhc
               /\ rec' = [rec EXCEPT !.lbhc.current = FALSE] /\ UNCHANGED faults
      BY <2>4, <3>1, <3>2, StoredTyped, StaleTyped DEF sync_update
    <3>3. CASE Refused(sync.lbhc.current) /\ UNCHANGED <<lbhc, watch, GlobalLbhc, rec>>
      BY <2>4, <3>3, RefusedTyped DEF sync_update
    <3> QED
      BY <2>4, <3>2, <3>3 DEF sync_update
  <2>5. CASE deliver
    BY <2>5, SyncAssumption DEF deliver
  <2>6. CASE Reconcile
    BY <2>6 DEF Reconcile, Cached, Marked, Copies, RecStates
  <2>7. ASSUME NEW e \in Endpoints, rec_read_ep(e) PROVE SyncTypeOK'
    BY <2>7 DEF rec_read_ep, EpCopies, RecStates
  <2>8. ASSUME NEW e \in Endpoints, rec_update_ep(e) PROVE SyncTypeOK'
    <3>1. rec' \in RecStates
      BY <2>8 DEF rec_update_ep, RecStates
    <3>2. CASE Moved(e, rec.pc = "restore") /\ UNCHANGED faults
               /\ filter' = [filter EXCEPT !.ep.current = FALSE]
      BY <2>8, <3>1, <3>2, MovedTyped, StaleTyped DEF rec_update_ep
    <3>3. CASE Refused(rec.ep.current) /\ UNCHANGED epVars
      BY <2>8, <3>1, <3>3, RefusedTyped DEF rec_update_ep
    <3> QED
      BY <2>8, <3>2, <3>3 DEF rec_update_ep
  <2>9. CASE rec_withdraw
    BY <2>9 DEF rec_withdraw, Marked, RecStates
  <2>10. CASE cleanHcBaseEpUpStatus
    <3>1. Cleaned(rec.lbhc.spec) \in Specs
      BY CleanedTyped DEF RecStates, Copies
    <3>2. CASE Stored(Cleaned(rec.lbhc.spec)) /\ UNCHANGED faults
               /\ GlobalLbhc' = [GlobalLbhc EXCEPT !.current = FALSE]
               /\ sync' = [sync EXCEPT !.lbhc.current = FALSE]
      BY <2>10, <3>1, <3>2, StoredTyped, StaleTyped DEF cleanHcBaseEpUpStatus
    <3>3. CASE (UNCHANGED faults \/ Refused(rec.lbhc.current))
               /\ UNCHANGED <<lbhc, watch, GlobalLbhc, sync>>
      BY <2>10, <3>3, RefusedTyped DEF cleanHcBaseEpUpStatus
    <3> QED
      BY <2>10, <3>2, <3>3 DEF cleanHcBaseEpUpStatus
  <2>11. CASE syncLbhcWithEndpoints
    BY <2>11, SyncAssumption DEF syncLbhcWithEndpoints, Marked, FilterStates
  <2>12. ASSUME NEW e \in Endpoints, filter_read_ep(e) PROVE SyncTypeOK'
    BY <2>12 DEF filter_read_ep, EpCopies, FilterStates
  <2>13. ASSUME NEW e \in Endpoints, filter_update_ep(e) PROVE SyncTypeOK'
    <3>1. filter' \in FilterStates
      BY <2>13 DEF filter_update_ep, FilterStates
    <3>2. CASE Moved(e, FALSE) /\ UNCHANGED faults
               /\ rec' = [rec EXCEPT !.ep.current = FALSE]
      BY <2>13, <3>1, <3>2, MovedTyped, StaleTyped DEF filter_update_ep
    <3>3. CASE Refused(filter.ep.current) /\ UNCHANGED <<ready, events, rec>>
      BY <2>13, <3>1, <3>3, RefusedTyped DEF filter_update_ep
    <3> QED
      BY <2>13, <3>2, <3>3 DEF filter_update_ep
  <2>14. ASSUME NEW e \in Endpoints, peer_changes(e) PROVE SyncTypeOK'
    BY <2>14 DEF peer_changes, PeerStates
  <2>15. CASE lease_moves
    BY <2>15, SyncAssumption DEF lease_moves
  <2>16. ASSUME NEW e \in Endpoints, foreign_write(e) PROVE SyncTypeOK'
    <3>1. ready' \in [Endpoints -> BOOLEAN] /\ events' \in 0..MaxEvents
      BY <2>16, MovedTyped DEF foreign_write
    <3>2. faults' \in 0..MaxFaults
      BY <2>16, SyncAssumption DEF foreign_write
    <3>3. rec' \in RecStates /\ filter' \in FilterStates
      BY <2>16, StaleTyped DEF foreign_write
    <3> QED
      BY <2>16, <3>1, <3>2, <3>3 DEF foreign_write
  <2>17. CASE restart
    <3>1. watch' \in Seq(Specs) /\ Len(watch') <= MaxLag
      BY <2>17, NothingUnderWay DEF restart
    <3>2. events' \in 0..MaxEvents /\ faults' \in 0..MaxFaults
      BY <2>17, SyncAssumption DEF restart
    <3>3. /\ GlobalLbhc' \in Copies /\ sync' \in SyncStates
          /\ rec' \in RecStates /\ filter' \in FilterStates
      BY <2>17 DEF restart
    <3> QED
      BY <2>17, <3>1, <3>2, <3>3 DEF restart
  <2>18. CASE UNCHANGED vars
    BY <2>18 DEF vars
  <2> QED
    BY <2>1, <2>2, <2>3, <2>4, <2>5, <2>6, <2>7, <2>8, <2>9, <2>10, <2>11, <2>12,
       <2>13, <2>14, <2>15, <2>16, <2>17, <2>18, <2>19, <2>20, <2>21
       DEF SyncNext, SyncLoop, RecSteps, FilterSteps, Environment
<1> QED
  BY <1>1, <1>2, PTL DEF SyncSpec

-----------------------------------------------------------------------------
\* A copy read from a cache that is up to date is the server's version.
LEMMA CachedSound ==
    ASSUME CacheInv, Cached.current
    PROVE  exists /\ Cached.spec = lbhc
BY DEF CacheInv, Cached

\* Marking entries true forgets none, and neither does what nginx reports on
\* the node that answers for the service.
LEMMA MarkingKeeps ==
    ASSUME NEW spec \in Specs, NEW payload, NEW e \in Endpoints, Keeps(spec)
    PROVE  /\ Keeps(Recovered(spec))
           /\ Keeps(Unrecorded(spec, payload))
           /\ holder => Keeps(EntryMarks(spec, e, payload))
BY DEF Keeps, Recovered, Unrecorded, EntryMarks, checkSvcIsValid, Specs

\* The server's side is as before, and so are the copies that matter.
LEMMA NothingStored ==
    ASSUME SyncInv, UNCHANGED <<exists, lbhc, known, cache, watch, GlobalLbhc>>,
           \/ sync' = sync \/ ~sync'.lbhc.current
           \/ sync'.lbhc.current = sync.lbhc.current /\ sync'.pc \in {"judge", "update"},
           rec'.lbhc = rec.lbhc \/ ~rec'.lbhc.current
    PROVE  SyncInv'
BY DEF SyncInv, CacheInv, CopyInv, Keeps

\* A step of the controller, of the API server or of the environment keeps the
\* copies sound.
LEMMA CopiesStep == SyncTypeOK /\ SyncInv /\ [SyncNext]_vars => SyncInv'
<1> SUFFICES ASSUME SyncTypeOK, SyncInv, [SyncNext]_vars PROVE SyncInv'
  OBVIOUS
<1> USE DEF lbhcVars, syncVars, epVars
<1>0. ~IdleSync.lbhc.current /\ ~IdleRec.lbhc.current /\ ~NoCopy.current
  BY DEF IdleSync, IdleRec, NoCopy
<1>1. CASE SyncHealthCheck
  BY <1>1, NothingStored DEF SyncHealthCheck, SyncTypeOK, SyncStates, SyncInv, CopyInv
<1>2. CASE eventOpt
  <2>0. sync'.pc = "judge" /\ sync'.lbhc = GlobalLbhc' /\ GlobalLbhc' = Read
    BY <1>2, ReadStep
  <2>1. CASE ~known /\ ~exists
    <3>1. lbhc' = NoEntry /\ exists' /\ watch' # <<>> /\ watch'[Len(watch')] = lbhc'
      <4>1. exists' /\ Stored(NoEntry)
        BY <1>2, <2>1 DEF eventOpt
      <4>2. lbhc' = NoEntry
        BY <4>1 DEF Stored
      <4> QED
        BY <4>1, <4>2, StoredTyped, IdleTyped DEF SyncTypeOK
    <3>2. ~rec'.lbhc.current
      BY <1>2, <2>1 DEF eventOpt, SyncInv, CopyInv
    <3> QED
      BY <2>0, <3>1, <3>2 DEF SyncInv, CacheInv, CopyInv, Keeps, NoEntry
  <2>2. CASE ~(~known /\ ~exists)
    <3>1. UNCHANGED <<exists, lbhc, known, cache, watch, rec>>
      BY <1>2, <2>2 DEF eventOpt
    <3>2. Cached.current => exists /\ Cached.spec = lbhc
      BY CachedSound DEF SyncInv
    <3>3. GlobalLbhc' = Cached
      BY <2>0, <2>2 DEF Read
    <3>4. CacheInv'
      BY <3>1 DEF SyncInv, CacheInv
    <3> QED
      BY <2>0, <3>1, <3>2, <3>3, <3>4 DEF SyncInv, CopyInv, Keeps
  <2> QED
    BY <2>1, <2>2
<1>19. CASE eventOpt_not_created
  <2>1. ~sync'.lbhc.current /\ ~GlobalLbhc'.current
    BY <1>0, <1>19, ReadStep
  <2> QED
    BY <1>19, <2>1 DEF eventOpt_not_created, SyncInv, CacheInv, CopyInv, Keeps
<1>20. ASSUME NEW e \in Endpoints, eventOpt_entry(e) PROVE SyncInv'
  BY <1>20, EntryStep, NothingStored DEF eventOpt_entry
<1>21. CASE eventOpt_compare
  BY <1>0, <1>21, CompareStep, NothingStored DEF eventOpt_compare
<1>3. CASE noneEventOpt
  <2> DEFINE got == IF looped THEN GlobalLbhc ELSE Cached
             marked == [got EXCEPT !.spec = Recovered(got.spec)]
  <2>1. UNCHANGED <<exists, lbhc, known, cache, watch, rec>>
    BY <1>3 DEF noneEventOpt
  <2>2. got \in Copies
    BY DEF Cached, Copies, SyncTypeOK
  <2>3. got.current => exists /\ Keeps(got.spec)
    BY CachedSound DEF SyncInv, CopyInv, Keeps
  <2>4. marked.current => exists /\ Keeps(marked.spec)
    <3> HIDE DEF got
    <3>1. Keeps(got.spec) => Keeps(Recovered(got.spec))
      BY DEF Keeps, Recovered
    <3> QED
      BY <2>2, <2>3, <3>1 DEF Copies
  <2>5. GlobalLbhc' \in {GlobalLbhc, got, marked}
    BY <1>3 DEF noneEventOpt
  <2>6. (sync'.lbhc = marked /\ sync'.pc = "update") \/ ~sync'.lbhc.current
    <3>1. sync' \in {IdleSync, [IdleSync EXCEPT !.pc = "update", !.lbhc = marked]}
      BY <1>3 DEF noneEventOpt
    <3> HIDE DEF marked
    <3> QED
      BY <1>0, <3>1 DEF IdleSync
  <2>7. CacheInv'
    BY <2>1 DEF SyncInv, CacheInv
  <2> HIDE DEF got, marked
  <2> QED
    BY <2>1, <2>3, <2>4, <2>5, <2>6, <2>7 DEF SyncInv, CopyInv, Keeps
<1>4. CASE sync_update
  <2>1. CASE sync.lbhc.current /\ Stored(sync.lbhc.spec) /\ GlobalLbhc' = sync.lbhc
             /\ rec' = [rec EXCEPT !.lbhc.current = FALSE]
    <3>1. /\ lbhc' = sync.lbhc.spec /\ watch' # <<>> /\ watch'[Len(watch')] = lbhc'
      BY <2>1, StoredTyped DEF Stored, SyncTypeOK, SyncStates, Copies
    <3>2. ~rec'.lbhc.current /\ ~sync'.lbhc.current /\ exists'
      BY <1>0, <1>4, <2>1, StaleTyped DEF sync_update, SyncTypeOK, SyncInv, CopyInv
    <3>3. Keeps(GlobalLbhc.spec)'
      BY <2>1, <3>1 DEF Keeps
    <3> QED
      BY <1>4, <2>1, <3>1, <3>2, <3>3 DEF sync_update, SyncInv, CacheInv, CopyInv
  <2>2. CASE UNCHANGED <<lbhc, watch, GlobalLbhc, rec>>
    BY <1>0, <1>4, <2>2, NothingStored DEF sync_update
  <2> QED
    BY <1>4, <2>1, <2>2 DEF sync_update
<1>5. CASE deliver
  <2>1. UNCHANGED <<exists, lbhc, GlobalLbhc, sync, rec>>
    BY <1>5 DEF deliver
  <2>2. watch \in Seq(Specs) /\ watch # <<>> /\ cache' = Head(watch) /\ watch' = Tail(watch)
        /\ watch[Len(watch)] = lbhc /\ exists
    BY <1>5 DEF deliver, SyncInv, CacheInv, SyncTypeOK
  <2>3. watch' = <<>> => cache' = lbhc
    <3> SUFFICES ASSUME watch' = <<>> PROVE Head(watch) = watch[Len(watch)]
      BY <2>2
    <3>1. Len(Tail(watch)) = Len(watch) - 1 /\ Len(watch) \in Nat
      BY <2>2
    <3>2. Len(Tail(watch)) = 0
      <4>1. Tail(watch) = <<>>
        BY <2>2
      <4> QED
        BY <4>1, NothingUnderWay, Zenon
    <3>3. Len(watch) = 1
      BY <3>1, <3>2
    <3> QED
      BY <2>2, <3>3
  <2>4. watch' # <<>> => watch'[Len(watch')] = lbhc
    BY <2>2
  <2>5. CacheInv'
    BY <2>1, <2>2, <2>3, <2>4 DEF CacheInv
  <2> QED
    BY <2>1, <2>5 DEF SyncInv, CopyInv, Keeps
<1>6. CASE Reconcile
  <2>1. UNCHANGED <<exists, lbhc, known, cache, watch, GlobalLbhc, sync>> /\ rec'.lbhc = Cached
    BY <1>6 DEF Reconcile
  <2> QED
    BY <2>1, CachedSound DEF SyncInv, CacheInv, CopyInv, Keeps
<1>7. ASSUME NEW e \in Endpoints, rec_read_ep(e) PROVE SyncInv'
  BY <1>7, NothingStored DEF rec_read_ep, SyncTypeOK, RecStates
<1>8. ASSUME NEW e \in Endpoints, rec_update_ep(e) PROVE SyncInv'
  BY <1>8, NothingStored DEF rec_update_ep, SyncTypeOK, RecStates
<1>9. CASE rec_withdraw
  BY <1>9, NothingStored DEF rec_withdraw, SyncTypeOK, RecStates
<1>10. CASE cleanHcBaseEpUpStatus
  <2>1. CASE rec.lbhc.current /\ Stored(Cleaned(rec.lbhc.spec))
             /\ GlobalLbhc' = [GlobalLbhc EXCEPT !.current = FALSE]
             /\ sync' = [sync EXCEPT !.lbhc.current = FALSE]
    <3>1. Cleaned(rec.lbhc.spec) \in Specs
      BY CleanedTyped DEF SyncTypeOK, RecStates, Copies
    <3>2. watch' # <<>> /\ watch'[Len(watch')] = lbhc'
      BY <2>1, <3>1, StoredTyped DEF SyncTypeOK
    <3>3. ~rec'.lbhc.current /\ ~sync'.lbhc.current /\ exists'
      BY <1>0, <1>10, <2>1, StaleTyped DEF cleanHcBaseEpUpStatus, SyncTypeOK, SyncInv, CopyInv
    <3>4. ~GlobalLbhc'.current
      BY <2>1 DEF SyncTypeOK, Copies
    <3> QED
      BY <3>2, <3>3, <3>4 DEF SyncInv, CacheInv, CopyInv
  <2>2. CASE UNCHANGED <<lbhc, watch, GlobalLbhc, sync>>
    BY <1>0, <1>10, <2>2, NothingStored DEF cleanHcBaseEpUpStatus
  <2> QED
    BY <1>10, <2>1, <2>2 DEF cleanHcBaseEpUpStatus
<1>11. CASE syncLbhcWithEndpoints
  BY <1>11, NothingStored DEF syncLbhcWithEndpoints
<1>12. ASSUME NEW e \in Endpoints, filter_read_ep(e) PROVE SyncInv'
  BY <1>12, NothingStored DEF filter_read_ep
<1>13. ASSUME NEW e \in Endpoints, filter_update_ep(e) PROVE SyncInv'
  BY <1>13, NothingStored, StaleTyped DEF filter_update_ep, SyncTypeOK
<1>14. ASSUME NEW e \in Endpoints, peer_changes(e) PROVE SyncInv'
  BY <1>14, NothingStored DEF peer_changes
<1>15. CASE lease_moves
  BY <1>15, NothingStored DEF lease_moves
<1>16. ASSUME NEW e \in Endpoints, foreign_write(e) PROVE SyncInv'
  BY <1>16, NothingStored, StaleTyped DEF foreign_write, SyncTypeOK
<1>17. CASE restart
  BY <1>0, <1>17 DEF restart, SyncInv, CacheInv, CopyInv
<1>18. CASE UNCHANGED vars
  BY <1>18, NothingStored DEF vars
<1> QED
  BY <1>1, <1>2, <1>3, <1>4, <1>5, <1>6, <1>7, <1>8, <1>9, <1>10, <1>11, <1>12,
     <1>13, <1>14, <1>15, <1>16, <1>17, <1>18, <1>19, <1>20, <1>21
     DEF SyncNext, SyncLoop, RecSteps, FilterSteps, Environment

-----------------------------------------------------------------------------
\* The answers of checkSvcIsValid when no entry is looked at in a step that
\* does not end the poll.
LEMMA LeaseKept ==
    ASSUME PollInv, LeaseNext, sync'.todo = sync.todo \/ sync.pc # "judge"
    PROVE  /\ sync'.pc \in {"judge", "update"} => lease' = lease
           /\ sync'.pc \notin {"judge", "update"} => lease' = "kept"
BY DEF LeaseNext

\* A step that leaves the Lbhc and the poll's copy alone, or makes that stale.
LEMMA PollUndisturbed ==
    ASSUME PollInv, LeaseNext, sync'.pc = sync.pc, sync'.todo = sync.todo,
           sync'.lbhc.spec = sync.lbhc.spec,
           \/ ~sync'.lbhc.current
           \/ sync'.lbhc.current = sync.lbhc.current /\ lbhc' = lbhc
    PROVE  PollInv'
<1>1. lease' = lease \/ (sync'.pc \notin {"judge", "update"} /\ lease' = "kept")
  BY LeaseKept
<1> QED
  BY <1>1 DEF PollInv, Keeps

\* Between two polls there is nothing to store.
LEMMA PollOver ==
    ASSUME PollInv, LeaseNext, sync' = IdleSync
    PROVE  PollInv'
<1>1. sync'.pc = "idle" /\ ~sync'.lbhc.current
  BY DEF IdleSync, NoCopy
<1>2. lease' = "kept"
  BY <1>1 DEF LeaseNext
<1> QED
  BY <1>1, <1>2 DEF PollInv

\* A step keeps what the poll may store: only an entry that is looked at
\* without the lease drops entries, and it drops all of them.
LEMMA PollStep ==
    SyncTypeOK /\ SyncInv /\ PollInv /\ [MCNext]_mcVars => PollInv'
<1> SUFFICES ASSUME SyncTypeOK, SyncInv, PollInv, MCNext PROVE PollInv'
  BY DEF PollInv, Keeps, mcVars, vars
<1> USE DEF lbhcVars, syncVars, epVars
<1>0. SyncNext /\ LeaseNext
  BY DEF MCNext
<1>1. CASE SyncHealthCheck
  <2>1. /\ sync'.pc \notin {"judge", "update"} /\ sync.pc # "judge"
        /\ sync'.lbhc = sync.lbhc /\ ~sync.lbhc.current
    BY <1>1 DEF SyncHealthCheck, SyncTypeOK, SyncStates, SyncInv, CopyInv
  <2> QED
    BY <1>0, <2>1, LeaseKept DEF PollInv
<1>2. CASE eventOpt
  <2>1. sync'.pc = "judge" /\ sync.pc = "event" /\ sync'.lbhc = Read
    BY <1>2, ReadStep
  <2>2. lease' = "kept"
    BY <1>0, <2>1, LeaseKept DEF PollInv
  <2>3. Read.current => Read.spec = lbhc'
    <3>1. CASE ~known /\ ~exists
      BY <1>2, <3>1 DEF eventOpt, Stored, Read, NoCopy
    <3>2. CASE ~(~known /\ ~exists)
      BY <1>2, <3>2, CachedSound DEF eventOpt, Read, SyncInv
    <3> QED
      BY <3>1, <3>2
  <2> QED
    BY <2>1, <2>2, <2>3 DEF PollInv, Keeps
<1>3. CASE eventOpt_not_created
  <2>1. sync'.pc = "judge" /\ sync.pc = "event" /\ ~sync'.lbhc.current
    BY <1>3, ReadStep DEF NoCopy
  <2>2. lease' = "kept"
    BY <1>0, <2>1, LeaseKept DEF PollInv
  <2> QED
    BY <2>1, <2>2 DEF PollInv
<1>4. ASSUME NEW e \in Endpoints, eventOpt_entry(e) PROVE PollInv'
  <2>1. /\ sync'.pc = "judge" /\ sync.pc = "judge" /\ sync'.todo # sync.todo
        /\ sync'.lbhc.current = sync.lbhc.current
        /\ sync'.lbhc.spec = EntryMarks(sync.lbhc.spec, e, sync.payload)
    BY <1>4, EntryStep
  <2>2. lbhc' = lbhc
    BY <1>4 DEF eventOpt_entry
  <2>3. CASE ~holder
    <3>1. lease' = "lost" /\ sync'.lbhc.spec = NoEntry
      BY <1>0, <2>1, <2>3 DEF LeaseNext, checkSvcIsValid, EntryMarks
    <3> QED
      BY <2>1, <3>1 DEF PollInv
  <2>4. CASE holder /\ lease = "lost"
    <3>1. lease' = "regained"
      BY <1>0, <2>1, <2>4 DEF LeaseNext, checkSvcIsValid
    <3> QED
      BY <2>1, <3>1 DEF PollInv
  <2>5. CASE holder /\ lease # "lost"
    <3>1. lease' = lease
      BY <1>0, <2>1, <2>5 DEF LeaseNext, checkSvcIsValid
    <3>2. sync.lbhc.spec \in Specs
      BY DEF SyncTypeOK, SyncStates, Copies
    <3>3. Keeps(sync.lbhc.spec) => Keeps(sync'.lbhc.spec)
      BY <2>1, <2>5, <3>2, MarkingKeeps
    <3>4. Keeps(sync'.lbhc.spec) => Keeps(sync.lbhc.spec)'
      BY <2>2 DEF Keeps
    <3> QED
      BY <2>1, <2>5, <3>1, <3>3, <3>4 DEF PollInv
  <2> QED
    BY <2>3, <2>4, <2>5 DEF SyncTypeOK
<1>5. CASE eventOpt_compare
  <2>1. CASE sync' = IdleSync
    BY <1>0, <2>1, PollOver
  <2>2. CASE sync' # IdleSync
    <3>1. /\ sync'.pc = "update" /\ sync'.todo = sync.todo
          /\ sync'.lbhc.current = sync.lbhc.current
          /\ sync'.lbhc.spec = Unrecorded(sync.lbhc.spec, sync.payload)
          /\ ~compareMaps(sync'.lbhc.spec, GlobalLbhc.spec)
      BY <1>5, <2>2, CompareStep
    <3>2. lease' = lease
      BY <1>0, <3>1, LeaseKept
    <3>3. lease # "lost"
      <4>1. sync.lbhc.spec # NoEntry
        BY <3>1 DEF compareMaps, Unrecorded, NoEntry
      <4> QED
        BY <4>1 DEF PollInv
    <3>4. lbhc' = lbhc
      BY <1>5 DEF eventOpt_compare
    <3>5. Keeps(sync.lbhc.spec) => Keeps(sync.lbhc.spec)'
      BY <3>1, <3>4 DEF Keeps, Unrecorded
    <3> QED
      BY <3>1, <3>2, <3>3, <3>5 DEF PollInv
  <2> QED
    BY <2>1, <2>2
<1>6. CASE noneEventOpt
  <2>1. CASE sync' = IdleSync
    BY <1>0, <2>1, PollOver
  <2>2. CASE sync' # IdleSync
    <3> DEFINE got == IF looped THEN GlobalLbhc ELSE Cached
               marked == [got EXCEPT !.spec = Recovered(got.spec)]
    <3>1. sync' = [IdleSync EXCEPT !.pc = "update", !.lbhc = marked] /\ sync.pc = "none"
      BY <1>6, <2>2 DEF noneEventOpt
    <3>2. lbhc' = lbhc
      BY <1>6 DEF noneEventOpt
    <3>3. got \in Copies
      BY DEF Cached, Copies, SyncTypeOK
    <3>4. got.current => Keeps(got.spec)
      BY CachedSound DEF SyncInv, CopyInv, Keeps
    <3> HIDE DEF got
    <3>5. /\ sync'.pc = "update" /\ sync'.lbhc.current = got.current
          /\ sync'.lbhc.spec = Recovered(got.spec)
      BY <3>1, <3>3 DEF IdleSync, Copies
    <3>6. lease' = "kept"
      BY <1>0, <3>1, <3>5, LeaseKept DEF PollInv
    <3>7. got.current => Keeps(sync.lbhc.spec)'
      BY <3>2, <3>4, <3>5 DEF Keeps, Recovered
    <3> QED
      BY <3>5, <3>6, <3>7 DEF PollInv
  <2> QED
    BY <2>1, <2>2
<1>7. CASE sync_update
  BY <1>0, <1>7, PollOver DEF sync_update
<1>8. CASE cleanHcBaseEpUpStatus
  <2>1. CASE sync' = [sync EXCEPT !.lbhc.current = FALSE]
    <3>1. /\ sync'.pc = sync.pc /\ sync'.todo = sync.todo
          /\ sync'.lbhc.spec = sync.lbhc.spec /\ ~sync'.lbhc.current
      BY <2>1 DEF SyncTypeOK, SyncStates, Copies
    <3> QED
      BY <1>0, <3>1, PollUndisturbed
  <2>2. CASE UNCHANGED <<lbhc, sync>>
    BY <1>0, <2>2, PollUndisturbed
  <2> QED
    BY <1>8, <2>1, <2>2 DEF cleanHcBaseEpUpStatus
<1>9. CASE restart
  BY <1>0, <1>9, PollOver DEF restart
<1>10. CASE UNCHANGED <<lbhc, sync>>
  BY <1>0, <1>10, PollUndisturbed
<1> QED
  BY <1>0, <1>1, <1>2, <1>3, <1>4, <1>5, <1>6, <1>7, <1>8, <1>9, <1>10
     DEF SyncNext, SyncLoop, RecSteps, FilterSteps, Environment, deliver,
         Reconcile, rec_withdraw, rec_read_ep, rec_update_ep, syncLbhcWithEndpoints,
         filter_read_ep, filter_update_ep, peer_changes, lease_moves, foreign_write

-----------------------------------------------------------------------------
\* A copy that is current has an entry for every backend that is down, what
\* eventOpt, noneEventOpt and cleanHcBaseEpUpStatus would write back, unless
\* checkSvcIsValid has said no and then yes in the poll that made it.
THEOREM CopiesSound == MCSpec => [](SyncInv /\ PollInv)
<1>1. MCInit => SyncInit /\ SyncInv /\ PollInv
  BY DEF MCInit, SyncInit, SyncInv, CacheInv, CopyInv, PollInv, NoCopy, IdleSync, IdleRec
<1>2. [MCNext]_mcVars => [SyncNext]_vars
  BY DEF MCNext, mcVars
<1>3. SyncInit /\ [][SyncNext]_vars => []SyncTypeOK
  BY SyncTypeCorrect, PTL DEF SyncSpec
<1> QED
  BY <1>1, <1>2, <1>3, CopiesStep, PollStep, PTL DEF MCSpec

\* Whatever the conflicts, failures, restarts and moves of the lease, between
\* polls or between two entries of one, an entry that says a backend is down is
\* only removed after it was set to true, except by the Update of a poll in
\* which checkSvcIsValid has said no and then yes.
THEOREM NoDownMarkForgotten == MCSpec => DownMarkSurvives
<1> DEFINE Forgets(e) == lbhc[e] = "down" /\ lbhc'[e] = "none"
           Regains == sync.pc = "update" /\ sync'.pc = "idle" /\ lease = "regained"
<1>1. SyncTypeOK /\ SyncInv /\ PollInv /\ [MCNext]_mcVars =>
        [\A e \in Endpoints : Forgets(e) => Regains]_mcVars
  <2> SUFFICES ASSUME SyncTypeOK, SyncInv, PollInv, SyncNext, NEW e \in Endpoints,
                      lbhc[e] = "down", lbhc'[e] = "none"
               PROVE  Regains
    BY DEF MCNext
  <2> USE DEF lbhcVars, syncVars, epVars
  <2>1. CASE eventOpt
    BY <2>1 DEF eventOpt, SyncInv, CacheInv, NoEntry
  <2>2. CASE sync_update
    <3>1. sync.pc = "update" /\ sync'.pc = "idle"
      BY <2>2 DEF sync_update, IdleSync
    <3>2. sync.lbhc.current /\ sync.lbhc.spec[e] = "none"
      BY <2>2 DEF sync_update, Stored
    <3>3. lease # "kept" /\ lease # "lost"
      BY <3>1, <3>2 DEF PollInv, Keeps
    <3> QED
      BY <3>1, <3>3 DEF PollInv
  <2>3. CASE cleanHcBaseEpUpStatus
    <3>1. \/ lbhc' = lbhc
          \/ lbhc' = Cleaned(rec.lbhc.spec) /\ rec.lbhc.current
      BY <2>3, Zenon DEF cleanHcBaseEpUpStatus, Stored
    <3>2. rec.lbhc.current => rec.lbhc.spec[e] = "down"
      BY DEF SyncInv, CopyInv
    <3>3. rec.lbhc.spec[e] = "down" => Cleaned(rec.lbhc.spec)[e] = "down"
      BY DEF Cleaned
    <3> QED
      BY <3>1, <3>2, <3>3
  <2>4. CASE UNCHANGED lbhc
    BY <2>4
  <2> QED
    BY <2>1, <2>2, <2>3, <2>4
       DEF SyncNext, SyncLoop, RecSteps, FilterSteps, Environment, SyncHealthCheck,
           eventOpt_not_created, eventOpt_entry, eventOpt_compare, noneEventOpt,
           deliver, Reconcile, rec_withdraw, rec_read_ep, rec_update_ep,
           syncLbhcWithEndpoints, filter_read_ep, filter_update_ep, lease_moves,
           restart, peer_changes, foreign_write
<1>2. [MCNext]_mcVars => [SyncNext]_vars
  BY DEF MCNext, mcVars
<1>3. MCInit => SyncInit
  BY DEF MCInit
<1>4. SyncInit /\ [][SyncNext]_vars => []SyncTypeOK
  BY SyncTypeCorrect, PTL DEF SyncSpec
<1> QED
  BY <1>1, <1>2, <1>3, <1>4, CopiesSound, PTL DEF MCSpec, DownMarkSurvives

-----------------------------------------------------------------------------
(***************************************************************************)
(* An entry of the Lbhc turns true only for a backend of which nginx has   *)
(* counted a success since, for every number of backends, lag, failure,    *)
(* lease move and rise_count.                                              *)
(*                                                                         *)
(* Only the poll sets an entry to false, so between the answer of nginx    *)
(* and the end of that poll no history starts anew: what the answer does   *)
(* not show down stays recovered until the Update it leads to.             *)
(***************************************************************************)
\* A copy that could be stored turns no entry true before a success.
TrueToNginx(copy) ==
    \A e \in Endpoints : copy.current /\ lbhc[e] = "down" /\ copy.spec[e] = "up"
                            => recovered[e]

HistoryInv ==
    /\ recovered \in [Endpoints -> BOOLEAN]
    /\ \A e \in Endpoints : lbhc[e] # "down" \/ peer[e] # "down" => recovered[e]
    /\ sync.pc \in {"event", "judge", "none"} =>
         \A e \in Endpoints : sync.payload[e] # "down" => recovered[e]
    /\ sync.pc = "none" => sync.payload = AllUp
    /\ TrueToNginx(GlobalLbhc)
    /\ TrueToNginx(sync.lbhc)

\* A step that sets no entry to false takes no recovery back.
LEMMA RecoveryKept ==
    ASSUME RecoveredNext, NEW e \in Endpoints, recovered[e],
           lbhc'[e] = "down" => lbhc[e] = "down"
    PROVE  recovered'[e]
BY DEF RecoveredNext

\* The history has its type, and a backend that is not down has recovered.
LEMMA RecoveryTyped ==
    ASSUME RecoveredNext, recovered \in [Endpoints -> BOOLEAN]
    PROVE  /\ recovered' \in [Endpoints -> BOOLEAN]
           /\ \A e \in Endpoints : lbhc'[e] # "down" \/ peer'[e] # "down" => recovered'[e]
<1> DEFINE fresh(e) == \/ lbhc'[e] # "down" \/ peer'[e] # "down"
                       \/ lbhc[e] = "down" /\ recovered[e]
<1>1. recovered' = [e \in Endpoints |-> fresh(e)]
  BY DEF RecoveredNext
<1>2. \A e \in Endpoints : fresh(e) \in BOOLEAN
  OBVIOUS
<1> QED
  BY <1>1, <1>2

\* A step of another thread: the poll's state stays, a copy may become stale,
\* and no entry is set to false.
LEMMA OtherThread ==
    ASSUME RecoveredNext, HistoryInv, SyncTypeOK,
           \A e \in Endpoints : lbhc'[e] = "down" => lbhc[e] = "down",
           \/ sync' = sync
           \/ sync' = [sync EXCEPT !.lbhc.current = FALSE],
           \/ GlobalLbhc' = GlobalLbhc
           \/ GlobalLbhc' = [GlobalLbhc EXCEPT !.current = FALSE]
    PROVE  HistoryInv'
<1>1. \A e \in Endpoints : recovered[e] => recovered'[e]
  BY RecoveryKept
<1>2. /\ sync'.pc = sync.pc /\ sync'.payload = sync.payload
      /\ sync'.lbhc = sync.lbhc \/ ~sync'.lbhc.current
      /\ GlobalLbhc' = GlobalLbhc \/ ~GlobalLbhc'.current
  BY DEF SyncTypeOK, SyncStates, Copies
<1> QED
  BY <1>1, <1>2, RecoveryTyped DEF HistoryInv, TrueToNginx

\* The end of a poll that stores nothing.
LEMMA HistoryIdle ==
    ASSUME RecoveredNext, HistoryInv, sync' = IdleSync, lbhc' = lbhc,
           GlobalLbhc' = GlobalLbhc \/ ~GlobalLbhc'.current
    PROVE  HistoryInv'
<1>1. \A e \in Endpoints : recovered[e] => recovered'[e]
  BY RecoveryKept
<1>2. sync'.pc = "idle" /\ ~sync'.lbhc.current
  BY DEF IdleSync, NoCopy
<1> QED
  BY <1>1, <1>2, RecoveryTyped DEF HistoryInv, TrueToNginx

\* Every step keeps the answer of nginx, and the copies marked after it, true.
LEMMA HistoryStep ==
    SyncTypeOK /\ SyncInv /\ HistoryInv /\ [MCNext]_mcVars => HistoryInv'
<1> SUFFICES ASSUME SyncTypeOK, SyncInv, HistoryInv, MCNext PROVE HistoryInv'
  BY DEF HistoryInv, TrueToNginx, mcVars, vars
<1> USE DEF lbhcVars, syncVars, epVars
<1>0. SyncNext /\ RecoveredNext
  BY DEF MCNext
<1>1. CASE SyncHealthCheck
  <2>1. /\ sync'.payload = peer /\ sync'.lbhc = sync.lbhc /\ sync.pc = "idle"
        /\ sync'.pc = IF peer = AllUp THEN "none" ELSE "event"
        /\ UNCHANGED <<peer, lbhc, GlobalLbhc>>
    BY <1>1 DEF SyncHealthCheck, SyncTypeOK, SyncStates
  <2>2. \A e \in Endpoints : recovered[e] => recovered'[e]
    BY <1>0, <2>1, RecoveryKept
  <2> QED
    BY <1>0, <2>1, <2>2, RecoveryTyped DEF HistoryInv, TrueToNginx
<1>2. CASE eventOpt
  <2>1. /\ sync'.pc = "judge" /\ sync.pc = "event" /\ sync'.payload = sync.payload
        /\ sync'.lbhc = Read /\ GlobalLbhc' = Read
    BY <1>2, ReadStep
  <2>2. Read.current => Read.spec = lbhc'
    <3>1. CASE ~known /\ ~exists
      BY <1>2, <3>1 DEF eventOpt, Stored, Read, NoCopy
    <3>2. CASE ~(~known /\ ~exists)
      BY <1>2, <3>2, CachedSound DEF eventOpt, Read, SyncInv
    <3> QED
      BY <3>1, <3>2
  <2>3. lbhc' = NoEntry \/ lbhc' = lbhc
    BY <1>2 DEF eventOpt, Stored
  <2>4. \A e \in Endpoints : lbhc'[e] = "down" => lbhc[e] = "down"
    BY <2>3 DEF NoEntry
  <2>5. \A e \in Endpoints : recovered[e] => recovered'[e]
    BY <1>0, <2>4, RecoveryKept
  <2> QED
    BY <1>0, <2>1, <2>2, <2>5, RecoveryTyped DEF HistoryInv, TrueToNginx
<1>3. CASE eventOpt_not_created
  <2>1. /\ sync'.pc = "judge" /\ sync.pc = "event" /\ sync'.payload = sync.payload
        /\ ~sync'.lbhc.current /\ ~GlobalLbhc'.current
    BY <1>3, ReadStep DEF NoCopy
  <2>2. lbhc' = lbhc
    BY <1>3 DEF eventOpt_not_created
  <2>3. \A e \in Endpoints : recovered[e] => recovered'[e]
    BY <1>0, <2>2, RecoveryKept
  <2> QED
    BY <1>0, <2>1, <2>3, RecoveryTyped DEF HistoryInv, TrueToNginx
<1>4. ASSUME NEW e \in Endpoints, eventOpt_entry(e) PROVE HistoryInv'
  <2>1. /\ sync'.pc = "judge" /\ sync.pc = "judge" /\ sync'.payload = sync.payload
        /\ sync'.lbhc.current = sync.lbhc.current
        /\ sync'.lbhc.spec = EntryMarks(sync.lbhc.spec, e, sync.payload)
    BY <1>4, EntryStep
  <2>2. UNCHANGED <<lbhc, GlobalLbhc>>
    BY <1>4 DEF eventOpt_entry
  <2>3. \A d \in Endpoints : recovered[d] => recovered'[d]
    BY <1>0, <2>2, RecoveryKept
  <2>4. \A d \in Endpoints : sync'.lbhc.spec[d] = "up" => sync.lbhc.spec[d] = "up"
    <3>1. sync.lbhc.spec \in Specs
      BY DEF SyncTypeOK, SyncStates, Copies
    <3> QED
      BY <2>1, <3>1 DEF EntryMarks, NoEntry, Specs
  <2> QED
    BY <1>0, <2>1, <2>2, <2>3, <2>4, RecoveryTyped DEF HistoryInv, TrueToNginx
<1>5. CASE eventOpt_compare
  <2>1. UNCHANGED <<lbhc, GlobalLbhc>>
    BY <1>5 DEF eventOpt_compare
  <2>2. CASE sync' = IdleSync
    BY <1>0, <2>1, <2>2, HistoryIdle
  <2>3. CASE sync' # IdleSync
    <3>1. /\ sync'.pc = "update" /\ sync.pc = "judge"
          /\ sync'.lbhc.current = sync.lbhc.current
          /\ sync'.lbhc.spec = Unrecorded(sync.lbhc.spec, sync.payload)
      BY <1>5, <2>3, CompareStep
    <3>2. \A d \in Endpoints : recovered[d] => recovered'[d]
      BY <1>0, <2>1, RecoveryKept
    <3>3. \A d \in Endpoints : sync'.lbhc.spec[d] = "up" =>
            sync.lbhc.spec[d] = "up" \/ sync.payload[d] # "down"
      BY <3>1 DEF Unrecorded
    <3> QED
      BY <1>0, <2>1, <3>1, <3>2, <3>3, RecoveryTyped DEF HistoryInv, TrueToNginx
  <2> QED
    BY <2>2, <2>3
<1>6. CASE noneEventOpt
  <2>1. lbhc' = lbhc
    BY <1>6 DEF noneEventOpt
  <2>2. \A e \in Endpoints : recovered'[e]
    <3>1. \A e \in Endpoints : recovered[e]
      BY <1>6 DEF noneEventOpt, HistoryInv, AllUp
    <3> QED
      BY <1>0, <2>1, <3>1, RecoveryKept
  <2>3. sync'.pc = "idle" \/ sync'.pc = "update"
    <3> DEFINE got == IF looped THEN GlobalLbhc ELSE Cached
               marked == [got EXCEPT !.spec = Recovered(got.spec)]
    <3>1. sync' \in {IdleSync, [IdleSync EXCEPT !.pc = "update", !.lbhc = marked]}
      BY <1>6 DEF noneEventOpt
    <3> HIDE DEF marked
    <3>2. /\ IdleSync.pc = "idle"
          /\ [IdleSync EXCEPT !.pc = "update", !.lbhc = marked].pc = "update"
      BY DEF IdleSync
    <3> QED
      BY <3>1, <3>2
  <2> QED
    BY <1>0, <2>2, <2>3, RecoveryTyped DEF HistoryInv, TrueToNginx
<1>7. CASE sync_update
  <2>1. sync' = IdleSync
    BY <1>7 DEF sync_update
  <2>2. CASE Stored(sync.lbhc.spec) /\ GlobalLbhc' = sync.lbhc
    <3>1. lbhc' = GlobalLbhc'.spec
      BY <2>2 DEF Stored
    <3>2. sync'.pc = "idle" /\ ~sync'.lbhc.current
      BY <2>1 DEF IdleSync, NoCopy
    <3> QED
      BY <1>0, <3>1, <3>2, RecoveryTyped DEF HistoryInv, TrueToNginx
  <2>3. CASE UNCHANGED <<lbhc, GlobalLbhc>>
    BY <1>0, <2>1, <2>3, HistoryIdle
  <2> QED
    BY <1>7, <2>2, <2>3 DEF sync_update
<1>8. CASE cleanHcBaseEpUpStatus
  <2>1. CASE rec.lbhc.current /\ Stored(Cleaned(rec.lbhc.spec))
             /\ GlobalLbhc' = [GlobalLbhc EXCEPT !.current = FALSE]
             /\ sync' = [sync EXCEPT !.lbhc.current = FALSE]
    <3>1. lbhc' = Cleaned(lbhc)
      BY <2>1 DEF Stored, SyncInv, CopyInv
    <3>2. \A e \in Endpoints : lbhc'[e] = "down" => lbhc[e] = "down"
      BY <3>1 DEF Cleaned
    <3> QED
      BY <1>0, <2>1, <3>2, OtherThread
  <2>2. CASE UNCHANGED <<lbhc, GlobalLbhc, sync>>
    BY <1>0, <2>2, OtherThread
  <2> QED
    BY <1>8, <2>1, <2>2 DEF cleanHcBaseEpUpStatus
<1>9. CASE restart
  <2>1. sync' = IdleSync /\ lbhc' = lbhc /\ ~GlobalLbhc'.current
    BY <1>9 DEF restart, NoCopy
  <2> QED
    BY <1>0, <2>1, HistoryIdle
<1>10. CASE UNCHANGED <<lbhc, GlobalLbhc, sync>>
  BY <1>0, <1>10, OtherThread
<1> QED
  BY <1>0, <1>1, <1>2, <1>3, <1>4, <1>5, <1>6, <1>7, <1>8, <1>9, <1>10
     DEF SyncNext, SyncLoop, RecSteps, FilterSteps, Environment, deliver,
         Reconcile, rec_withdraw, rec_read_ep, rec_update_ep, syncLbhcWithEndpoints,
         filter_read_ep, filter_update_ep, peer_changes, lease_moves, foreign_write

-----------------------------------------------------------------------------
\* eventOpt and noneEventOpt turn an entry from false to true only if nginx has
\* counted a success of its backend since the entry was set to false.
THEOREM MarksFollowNginx == MCSpec => MarkedUpOnlyAfterSuccess
<1> DEFINE OnlyAfterSuccess == \A e \in Endpoints :
                                 lbhc[e] = "down" /\ lbhc'[e] = "up" => recovered[e]
<1>1. MCInit => SyncInit /\ HistoryInv
  BY DEF MCInit, SyncInit, HistoryInv, TrueToNginx, AllUp, NoCopy, IdleSync
<1>2. [MCNext]_mcVars => [SyncNext]_vars
  BY DEF MCNext, mcVars
<1>3. SyncTypeOK /\ SyncInv /\ HistoryInv /\ [MCNext]_mcVars => [OnlyAfterSuccess]_mcVars
  <2> SUFFICES ASSUME SyncTypeOK, SyncInv, HistoryInv, SyncNext, NEW e \in Endpoints,
                      lbhc[e] = "down", lbhc'[e] = "up"
               PROVE  recovered[e]
    BY DEF MCNext
  <2> USE DEF lbhcVars, syncVars, epVars
  <2>1. CASE eventOpt
    BY <2>1 DEF eventOpt, Stored, NoEntry
  <2>2. CASE sync_update
    BY <2>2 DEF sync_update, Stored, HistoryInv, TrueToNginx
  <2>3. CASE cleanHcBaseEpUpStatus
    <3>1. lbhc' = lbhc \/ lbhc' = Cleaned(rec.lbhc.spec)
      BY <2>3, Zenon DEF cleanHcBaseEpUpStatus, Stored
    <3>2. Cleaned(rec.lbhc.spec)[e] # "up"
      BY DEF Cleaned
    <3> QED
      BY <3>1, <3>2
  <2>4. CASE UNCHANGED lbhc
    BY <2>4
  <2> QED
    BY <2>1, <2>2, <2>3, <2>4
       DEF SyncNext, SyncLoop, RecSteps, FilterSteps, Environment, SyncHealthCheck,
           eventOpt_not_created, eventOpt_entry, eventOpt_compare, noneEventOpt,
           deliver, Reconcile, rec_withdraw, rec_read_ep, rec_update_ep,
           syncLbhcWithEndpoints, filter_read_ep, filter_update_ep, lease_moves,
           restart, peer_changes, foreign_write
<1>4. SyncInit /\ [][SyncNext]_vars => []SyncTypeOK
  BY SyncTypeCorrect, PTL DEF SyncSpec
<1> QED
  BY <1>1, <1>2, <1>3, <1>4, HistoryStep, CopiesSound, PTL
     DEF MCSpec, MarkedUpOnlyAfterSuccess
=============================================================================
