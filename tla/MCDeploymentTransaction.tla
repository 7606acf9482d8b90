----------------------- MODULE MCDeploymentTransaction -----------------------
(* A small host: the legacy profile exists for node model n1 only, and the *)
(* kernel refuses the server configuration of nBad.                        *)
EXTENDS DeploymentTransaction

CONSTANTS n1, n2, nBad, t1, t2, server, full, legacy

MCNamesOf == [n \in Nodes |-> IF n = n1 THEN {server, full, legacy}
                                        ELSE {server, full}]

MCRejected == {[node |-> nBad, template |-> NoTemplate]}

(* The second template is asked for with n1 only. *)
MCAsked == {<<n1, t1>>, <<n1, t2>>, <<n2, t1>>, <<nBad, t1>>}

(* Two failing steps, or one death of a process or a service. *)
MCBudgets == {<<2, 0>>, <<0, 1>>}
=============================================================================
