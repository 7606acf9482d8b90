--------------------------- MODULE MCServiceAccess ---------------------------
(* One subscription host, one other server name; an installation, any      *)
(* command after it, and one that repairs the host.                        *)
EXTENDS ServiceAccess

CONSTANT a

Three ==
  <<{"install", "no start"},
    {"install", "edit", "rule set", "regenerate", "switch", "update", "email"},
    {"switch", "update"}>>
=============================================================================
