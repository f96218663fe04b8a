--------------------------- MODULE MCLbhcWithdraw ---------------------------
(***************************************************************************)
(* LbhcSync for model checking its liveness, with a history of the event   *)
(* filter: missed says that it has let a change of the Endpoints pass on a *)
(* node that did not answer for the service, and that Reconcile has not    *)
(* gone through the Lbhc since.                                            *)
(***************************************************************************)
EXTENDS LbhcSync

VARIABLE missed

MissedNext ==
    missed' = CASE rec.pc = "idle" /\ rec'.pc = "restore" -> FALSE
                [] events' < events /\ ~holder -> TRUE
                [] OTHER -> missed

MCInit == SyncInit /\ missed = FALSE

MCNext == SyncNext /\ MissedNext

MCFairSpec == MCInit /\ [][MCNext]_<<vars, missed>> /\ Fairness

\* A backend that stays down on a node that keeps answering for its service is
\* in the end out of service for good (modifyEpBaseOnLbhc,
\* syncLbhcWithEndpoints), whatever conflicts, lease moves, foreign writes and
\* crashes came before.  The exception is a change of the Endpoints that the
\* filter saw while another node had the lease: it is not looked at again when
\* the lease comes back, only when the Lbhc changes.
DownIsWithdrawn ==
    \A e \in Endpoints :
        <>[](peer[e] = "down" /\ holder) => <>[](~ready[e]) \/ <>[]missed
=============================================================================
