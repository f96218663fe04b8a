----------------------------- MODULE MCLbhcSync -----------------------------
(***************************************************************************)
(* LbhcSync for model checking, with two histories.  recovered says        *)
(* whether nginx has counted a success of the backend since the Lbhc's     *)
(* entry was last set to false.  lease says what checkSvcIsValid has       *)
(* answered in the poll under way: always yes ("kept"), last no ("lost"),  *)
(* or yes after a no ("regained").                                         *)
(***************************************************************************)
EXTENDS LbhcSync, TLC

VARIABLES recovered, lease

mcVars == <<vars, recovered, lease>>

Symmetry == Permutations(Endpoints)

MCInit == SyncInit /\ recovered = [e \in Endpoints |-> TRUE] /\ lease = "kept"

\* A success after which the peer is still down shows as rising.
RecoveredNext ==
    recovered' = [e \in Endpoints |->
        \/ lbhc'[e] # "down" \/ peer'[e] # "down"
        \/ lbhc[e] = "down" /\ recovered[e]]

LeaseNext ==
    lease' = IF sync'.pc \notin {"judge", "update"} THEN "kept"
             ELSE IF sync.pc = "judge" /\ sync'.todo # sync.todo
             THEN IF ~checkSvcIsValid THEN "lost"
                  ELSE IF lease = "lost" THEN "regained" ELSE lease
             ELSE lease

MCNext == SyncNext /\ RecoveredNext /\ LeaseNext

MCSpec == MCInit /\ [][MCNext]_mcVars

\* A backend marked down in the Lbhc is not forgotten: its entry first becomes
\* true, whatever the order in which the poll and Reconcile, each with its own
\* copy, update the object (eventOpt, noneEventOpt, cleanHcBaseEpUpStatus).
\* The exception is the Update of a poll in which checkSvcIsValid has said no
\* to one entry, and so has dropped the service, and then yes to another.
DownMarkSurvives ==
    [][\A e \in Endpoints :
         lbhc[e] = "down" /\ lbhc'[e] = "none" =>
             sync.pc = "update" /\ sync'.pc = "idle" /\ lease = "regained"]_mcVars

\* An entry turns from false to true only if nginx has counted a success of
\* the backend since: one of rise_count is enough, since eventOpt skips a peer
\* with Rise > 0 before it records it as down.
MarkedUpOnlyAfterSuccess ==
    [][\A e \in Endpoints :
         lbhc[e] = "down" /\ lbhc'[e] = "up" => recovered[e]]_mcVars
=============================================================================
