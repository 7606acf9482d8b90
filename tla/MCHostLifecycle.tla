--------------------------- MODULE MCHostLifecycle ---------------------------
(* Three commands on a bare host, on a Direct one and on a proxied one. *)
EXTENDS HostLifecycle, TLC

CONSTANTS p1, p2, p3, oldDirect, oldProxy

(* Which commands run together, and on what. *)
Together(kinds, olds, stopped) ==
  [kind : {[p \in Procs |-> IF p = p1 THEN k[1] ELSE IF p = p2 THEN k[2] ELSE k[3]] :
             k \in kinds},
   old : olds, stopped : stopped]

Stops == {{}, {"sbctl"}, {"sing-box", "sbctl"}}

MCSessions ==
  Together({<<"fresh", "fresh", "absent">>, <<"replace", "fresh", "absent">>}, {None}, {{}})
  \cup Together({<<"replace", "replace", "absent">>, <<"replace", "account", "absent">>,
                 <<"replace", "mode", "absent">>, <<"mode", "mode", "absent">>,
                 <<"uninstall", "account", "account">>, <<"purge", "account", "absent">>},
                {oldDirect, oldProxy}, {{}})
  \cup Together({<<"mode", "absent", "absent">>, <<"absent", "mode", "absent">>},
                {oldDirect, oldProxy}, Stops)

DeadlockSessions == Together({<<"account", "mode", "account">>}, {oldDirect}, {{}})
WinnerSessions == Together({<<"replace", "mode", "fresh">>}, {None, oldProxy}, {{}})
PurgeSessions == Together({<<"purge", "mode", "mode">>}, {oldProxy}, {{}})
=============================================================================
