---------------------------- MODULE MCNginxConf ----------------------------
(***************************************************************************)
(* Instances of NginxConf: Endpoints values that between them take every   *)
(* path of Reconcile.                                                      *)
(***************************************************************************)
EXTENDS NginxConf

Val(hc, allPorts, files, addrs) ==
    [hc |-> hc, allPorts |-> allPorts, files |-> files, addrs |-> addrs]

\* One tcp port; every port, tcp and udp; one udp port and no address (refused);
\* checks disabled; no label.
MCValues ==
    {Val("true", FALSE, {"http"}, 1), Val("true", TRUE, Files, 2),
     Val("true", FALSE, {"stream"}, 0), Val("false", TRUE, Files, 2),
     Val("none", TRUE, {"http"}, 1)}
============================================================================
