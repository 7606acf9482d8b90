----------------------- MODULE MCCertificateDelivery -----------------------
EXTENDS CertificateDelivery

CONSTANTS c1, c2

(* Two commands and no daemon; the daemon beside one command.              *)
MCSessions == {
  [commands |-> {c1, c2}, daemon |-> FALSE, renewals |-> 2, faults |-> 2, readErrors |-> 0],
  [commands |-> {c1}, daemon |-> TRUE, renewals |-> 2, faults |-> 1, readErrors |-> 1]}
=============================================================================
