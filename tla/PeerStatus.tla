----------------------------- MODULE PeerStatus -----------------------------
(***************************************************************************)
(* The status of one peer as status_update keeps it when the updates of a  *)
(* record come one after the other: what a check promises, without workers *)
(* and time.  HttpStatusRefinement shows when the workers implement it.    *)
(***************************************************************************)
EXTENDS Integers

CONSTANTS
  RiseCount,    \* rise_count of the check directive
  FallCount,    \* fall_count of the check directive
  DefaultDown   \* default_down of the check directive

ASSUME StatusAssumption ==
  /\ RiseCount \in Nat \ {0}
  /\ FallCount \in Nat \ {0}
  /\ DefaultDown \in BOOLEAN

VARIABLES rise_count, fall_count, down

status == <<rise_count, fall_count, down>>

\* Counters saturate above both thresholds: no comparison tells more apart.
StatusCap == RiseCount + FallCount
CountOneMore(n) == IF n < StatusCap THEN n + 1 ELSE StatusCap

StatusInit == rise_count = 0 /\ fall_count = 0 /\ down = DefaultDown

rise ==
  /\ rise_count' = CountOneMore(rise_count)
  /\ fall_count' = 0
  /\ down' = (down /\ rise_count' < RiseCount)

\* Variant with a bug: a failure does not end a run of successes.
fall_keep_rise ==
  /\ fall_count' = CountOneMore(fall_count)
  /\ down' = (down \/ fall_count' >= FallCount)
  /\ UNCHANGED rise_count

fall ==
  /\ rise_count' = 0
  /\ fall_count' = CountOneMore(fall_count)
  /\ down' = (down \/ fall_count' >= FallCount)

status_update(result) == IF result THEN rise ELSE fall

StatusSpec == StatusInit /\ [][\E result \in BOOLEAN : status_update(result)]_status
=============================================================================
