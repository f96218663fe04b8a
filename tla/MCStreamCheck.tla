--------------------------- MODULE MCStreamCheck ---------------------------
(***************************************************************************)
(* Instances of StreamUpstreamCheck for TLC.                               *)
(***************************************************************************)
EXTENDS StreamUpstreamCheck, TLC

\* Workers are interchangeable: sound for the runs that check no liveness.
Symmetry == Permutations(Pids)
=============================================================================
