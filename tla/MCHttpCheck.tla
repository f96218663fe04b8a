---------------------------- MODULE MCHttpCheck ----------------------------
(***************************************************************************)
(* Instances of HttpUpstreamCheck for TLC.                                 *)
(***************************************************************************)
EXTENDS HttpStatusRefinement, TLC

\* Workers are interchangeable: sound for the runs that check no liveness.
Symmetry == Permutations(Pids)
=============================================================================
