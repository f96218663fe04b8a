--------------------------- MODULE StatusHistory ---------------------------
(***************************************************************************)
(* PeerStatus with the results of all checks so far, to compare the status *)
(* with what the documentation of the check directive says of it.          *)
(***************************************************************************)
EXTENDS PeerStatus, Sequences

CONSTANT MaxChecks     \* bound: checks in one behaviour

ASSUME HistoryAssumption == MaxChecks \in Nat

VARIABLE results       \* the results of the checks, in order

hvars == <<rise_count, fall_count, down, results>>

HistoryInit == StatusInit /\ results = <<>>

\* A check ends with the given result.
checked(result) ==
  /\ Len(results) < MaxChecks
  /\ status_update(result)
  /\ results' = Append(results, result)

HistoryNext == \E result \in BOOLEAN : checked(result)

HistorySpec == HistoryInit /\ [][HistoryNext]_hvars

-----------------------------------------------------------------------------
\* The n checks of s up to the i-th all had the given result.
RunEndsAt(s, i, n, result) ==
  /\ i >= n
  /\ \A j \in (i - n + 1)..i : s[j] = result

FallsAt(s, i) == RunEndsAt(s, i, FallCount, FALSE)
RisesAt(s, i) == RunEndsAt(s, i, RiseCount, TRUE)

\* The peer is down from the start, or fails for the fall_count-th time.
StartsDown(s, i) ==
  \/ i = 0 /\ DefaultDown
  \/ i > 0 /\ FallsAt(s, i)

\* "The server is considered down if the number of consecutive failures
\* reaches fall_count", "up if the number of consecutive successes reaches
\* rise_count", and default_down before any check: down at default or by
\* some run of failures, and no run of successes since.
DeclaredDown(s) ==
  \E i \in 0..Len(s) :
    /\ StartsDown(s, i)
    /\ \A k \in (i + 1)..Len(s) : ~RisesAt(s, k)

\* The flag status_update publishes after any sequence of checks is the
\* status the documentation defines from the whole sequence.
DownIsDeclared == down = DeclaredDown(results)
=============================================================================
