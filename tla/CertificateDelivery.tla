------------------------- MODULE CertificateDelivery -------------------------
(***************************************************************************)
(* The HTTPS daemon following the published certificate.                   *)
(*                                                                         *)
(* A background task looks at the published directory once a second: it    *)
(* takes the directory's stamp, reads the pair, takes the stamp again, and *)
(* makes the pair the active one only if nothing was exchanged meanwhile.  *)
(* It takes no lock, so every one of these is a step of its own between    *)
(* the steps of the certificate commands of CertificatePublication.        *)
(***************************************************************************)
EXTENDS CertificatePublication

(* Bound: what happens together.  The commands that run, whether the HTTPS *)
(* daemon does, and how many renewals, failing steps and failing reads.    *)
CONSTANT Sessions

ASSUME DeliveryAssumption ==
  \A s \in Sessions :
    /\ s.commands \subseteq Commands /\ s.daemon \in BOOLEAN
    /\ s.renewals \in 0..MaxRenewals /\ s.faults \in 0..MaxFaults
    /\ s.readErrors \in Nat

VARIABLES
  session,
  expired,      \* pairs below this one are past not_after
  active,       \* the pair new handshakes use
  activeStamp,
  failed,       \* CertificateReloadBackoff: the stamp that failed
  waited,       \* ... and whether its back-off is over
  check,        \* the check under way
  readErrors

daemonVars == <<session, expired, active, activeStamp, failed, waited, check, readErrors>>

allVars == <<vars, daemonVars>>

Checks == [step : {"idle", "read", "compare"}, stamp : Stamps \cup {None},
           pair : Nat \cup {None}]   \* None once read: unusable

Resting == [step |-> "idle", stamp |-> None, pair |-> None]

InitAll ==
  /\ Init
  /\ session \in Sessions
  /\ expired = 0
  /\ active = None /\ activeStamp = None
  /\ failed = None /\ waited = FALSE
  /\ check = Resting
  /\ readErrors = 0

(* The end of every round drops an active pair that has expired, together  *)
(* with its stamp: the same pair counts as not loaded again.               *)
KeepUnexpired(pair, stamp) ==
  IF pair # None /\ pair < expired
    THEN active' = None /\ activeStamp' = None
    ELSE active' = pair /\ activeStamp' = stamp

EndRound(pair, stamp) == KeepUnexpired(pair, stamp) /\ check' = Resting

ShouldRetryChangedOnly == failed # Stamp

(* CertificateReloadBackoff::should_retry *)
ShouldRetry == failed # Stamp \/ waited

(* A tick: the stamp before the read decides whether there is a read.      *)
Tick ==
  /\ check.step = "idle"
  /\ IF activeStamp # Stamp /\ ShouldRetry
       THEN /\ check' = [step |-> "read", stamp |-> Stamp, pair |-> None]
            /\ UNCHANGED <<active, activeStamp>>
       ELSE EndRound(active, activeStamp)
  /\ UNCHANGED <<vars, session, expired, failed, waited, readErrors>>

(* load_tls_config; a pair past its not_after is refused.                  *)
Read ==
  /\ check.step = "read"
  /\ \/ /\ check' = [check EXCEPT !.step = "compare",
                     !.pair = IF dir.pair < expired THEN None ELSE dir.pair]
        /\ UNCHANGED readErrors
     \/ /\ readErrors < session.readErrors /\ readErrors' = readErrors + 1
        /\ check' = [check EXCEPT !.step = "compare", !.pair = None]
  /\ UNCHANGED <<vars, session, expired, active, activeStamp, failed, waited>>

StampOfReadLate == Stamp

(* The stamp the pair was read under is the one taken before the read.     *)
StampOfRead == check.stamp

StillThatGeneration == StampOfRead = Stamp

(* ChangedDuringRead: the read is forgotten, the next tick tries again.    *)
Discard ==
  /\ check.step = "compare" /\ ~StillThatGeneration
  /\ EndRound(active, activeStamp)
  /\ UNCHANGED <<vars, session, expired, failed, waited, readErrors>>

Load ==
  /\ check.step = "compare" /\ StillThatGeneration /\ check.pair # None
  /\ EndRound(check.pair, StampOfRead)
  /\ failed' = None /\ waited' = FALSE
  /\ UNCHANGED <<vars, session, expired, readErrors>>

LoadFailsDropping ==
  /\ check.step = "compare" /\ StillThatGeneration /\ check.pair = None
  /\ EndRound(None, None)
  /\ failed' = StampOfRead /\ waited' = FALSE
  /\ UNCHANGED <<vars, session, expired, readErrors>>

(* A pair that cannot be loaded leaves the last valid one in place.        *)
LoadFails ==
  /\ check.step = "compare" /\ StillThatGeneration /\ check.pair = None
  /\ EndRound(active, activeStamp)
  /\ failed' = StampOfRead /\ waited' = FALSE
  /\ UNCHANGED <<vars, session, expired, readErrors>>

(* CERTIFICATE_RELOAD_FAILURE_BACKOFF has passed since the failure.        *)
BackoffEnds ==
  /\ failed # None /\ ~waited /\ waited' = TRUE
  /\ UNCHANGED <<vars, session, expired, active, activeStamp, failed, check, readErrors>>

(* The oldest unexpired pair passes its not_after, after its successor was *)
(* obtained; Certbot's last one may expire too.                            *)
Expire ==
  /\ expired <= live /\ expired' = expired + 1
  /\ UNCHANGED <<vars, session, active, activeStamp, failed, waited, check, readErrors>>

(* The daemon is restarted. *)
Restart ==
  /\ active' = None /\ activeStamp' = None
  /\ failed' = None /\ waited' = FALSE
  /\ check' = Resting
  /\ faults < session.faults /\ faults' = faults + 1
  /\ UNCHANGED <<session, live, dir, serial, dataplane, pc, job, expired, readErrors>>

Daemon == Tick \/ Read \/ Discard \/ Load \/ LoadFails

Publisher(p) ==
  /\ p \in session.commands
  /\ Begin(p) \/ Step(p) \/ Dies(p)
  /\ faults' <= session.faults
  /\ UNCHANGED daemonVars

NextAll ==
  \/ \E p \in Commands : Publisher(p)
  \/ Renew /\ live < session.renewals /\ UNCHANGED daemonVars
  \/ DataPlane /\ UNCHANGED daemonVars
  \/ session.daemon /\ (Daemon \/ BackoffEnds \/ Expire \/ Restart)

SpecAll == InitAll /\ [][NextAll]_allVars

(* A command waits for nobody, and somebody runs one again after a         *)
(* failure; the daemon's task is woken by its own timer.                   *)
FairSpecAll ==
  /\ SpecAll
  /\ WF_allVars(session.daemon /\ Daemon)
  /\ WF_allVars(session.daemon /\ BackoffEnds)
  /\ \A p \in Commands :
       /\ WF_allVars(Publisher(p) /\ Begin(p))
       /\ WF_allVars(Publisher(p) /\ Step(p))

-----------------------------------------------------------------------------
(* Types of both; the active pair and its stamp come and go together, and  *)
(* a check at rest keeps nothing (reload_tls_material).                    *)
TypeAll ==
  /\ TypeOK
  /\ expired \in Nat /\ readErrors \in Nat /\ waited \in BOOLEAN
  /\ active \in Nat \cup {None} /\ activeStamp \in Stamps \cup {None}
  /\ active = None <=> activeStamp = None
  /\ failed \in Stamps \cup {None} /\ (waited => failed # None)
  /\ check \in Checks /\ (check.step = "idle" => check = Resting)

(* The pair handshakes use is the pair of the generation it is recorded    *)
(* under: when that generation is the published one, the published pair is *)
(* served, however many exchanges ran between the daemon's two looks at    *)
(* the directory (reload_tls_material, ChangedDuringRead).                 *)
ActiveIsItsGeneration ==
  activeStamp = Stamp => active = dir.pair

(* A pair is withdrawn from handshakes only because it, or a pair loaded   *)
(* in its place in the same round, expired, or the daemon was restarted:   *)
(* not because the published one cannot be loaded (CertificateCheck::      *)
(* Failed).                                                                *)
LastValidRetained ==
  [][active # None /\ active' = None =>
       \/ active < expired
       \/ check.pair # None /\ check.pair < expired
       \/ faults' > faults]_allVars

(* Once publication is quiet, handshakes use the published pair for as     *)
(* long as it is valid, even if the first reads of it failed               *)
(* (CertificateReloadBackoff).                                             *)
EventuallyServed ==
  session.daemon => <>[](active = dir.pair \/ dir.pair < expired)
=============================================================================
