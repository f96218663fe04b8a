---------------------------- MODULE MCShmReload ----------------------------
(***************************************************************************)
(* ShmReload with a history variable for its properties, and the           *)
(* configurations for TLC: two upstreams that share a server, in both      *)
(* orders, one that has lost a server and one that has gained one.         *)
(***************************************************************************)
EXTENDS ShmReload

VARIABLE late   \* peers whose old record changed after it was copied

mcVars == <<rvars, late>>

\* A reload copies every record anew.
LateNext ==
  late' = IF built' = NotBuilt \/ built = NotBuilt
          THEN {}
          ELSE late \cup {conf[i] : i \in {i \in 1..Len(conf) : records'[i] # records[i]}}

MCInit == ReloadInit /\ late = {}
MCNext == ReloadNext /\ LateNext
MCSpec == MCInit /\ [][MCNext]_mcVars

-----------------------------------------------------------------------------
\* The new workers start with the record the old ones left of a peer that stays
\* in the configuration, wherever it stands in the old and in the new one:
\* status and counters.  It may be otherwise only when the old workers changed
\* the record after it was copied, or a configuration was rejected late since
\* the last reload.
StatusSurvivesReload ==
  [][zone' = zone + 1 =>
       \A i \in 1..Len(conf), j \in 1..Len(conf') :
         conf[i] = conf'[j] /\ conf[i] \notin late => records'[j] = records[i]]_mcVars

\* "The server is considered down if the number of consecutive failures
\* reaches fall_count": a peer in service becomes down with its fall_count-th
\* failure in a row.  A reload takes it down only when the record was copied
\* before an old worker found it up again, or when a configuration was
\* rejected late before it, so that default_down applies once more.
DownOnlyByFailures ==
  [][\A i \in 1..Len(conf), j \in 1..Len(conf') :
       conf[i] = conf'[j] /\ ~records[i].down /\ records'[j].down =>
         IF zone' = zone
         THEN i = j /\ records'[j].fall = FallCount
         ELSE conf[i] \in late \/ (DefaultDown /\ zone' > zone + 1)]_mcVars

-----------------------------------------------------------------------------
AOne == [upstream |-> "A", addr |-> "1"]
ATwo == [upstream |-> "A", addr |-> "2"]
BOne == [upstream |-> "B", addr |-> "1"]

\* The value for Confs in the cfg file.
SharedServer == {<<AOne, BOne>>, <<BOne, AOne>>, <<BOne>>, <<ATwo, BOne, AOne>>}
=============================================================================
