----------------------- MODULE HttpStatusRefinement -----------------------
(***************************************************************************)
(* The workers' updates of the peer's record implement PeerStatus, where   *)
(* each result is counted in one step, as long as checks do not overlap:   *)
(* status_update itself takes no lock.                                     *)
(***************************************************************************)
EXTENDS HttpUpstreamCheck

\* Some worker is at the given places in status_update with the given result.
Updating(result, places) ==
  \E w \in Pids : pc[w] \in places /\ check[w].result = result

Loaded == LET w == CHOOSE w \in Pids : pc[w] = "store" IN count[w]

(***************************************************************************)
(* The refinement mapping.  A result counts from the moment status_load    *)
(* takes it: the abstract record is the one the update is going to leave.  *)
(***************************************************************************)
RiseBar == IF Updating(TRUE, {"store"}) THEN Inc(Loaded) ELSE rise_count

FallBar ==
  IF Updating(FALSE, {"store"}) THEN Inc(Loaded)
  ELSE IF Updating(TRUE, {"publish", "store"}) THEN 0 ELSE fall_count

DownBar ==
  /\ down \/ (Updating(FALSE, {"store", "publish"}) /\ FallBar >= FallCount)
  /\ ~(Updating(TRUE, {"store", "publish"}) /\ RiseBar >= RiseCount)

Status == INSTANCE PeerStatus
            WITH rise_count <- RiseBar, fall_count <- FallBar, down <- DownBar

\* What the loads, stores and resets of status_update in all workers add up
\* to is one update of the record at a time, each with its own result.
StatusUpdatesAtomic == Status!StatusSpec

(***************************************************************************)
(* A punctual event loop: every timer is handled within the tick in which  *)
(* it expires, and no handler is under way when the tick ends.             *)
(***************************************************************************)
PunctualTick ==
  /\ PromptTick
  /\ \A w \in Pids : /\ ~due[w]
                     /\ timer[w] => elapsed[w] < CheckTimeout

PunctualNext == PunctualTick \/ \E w \in Pids : Worker(w)

PunctualSpec == Init /\ [][PunctualNext]_vars
=============================================================================
