------------------------ MODULE ConfigurationEdits ------------------------
(***************************************************************************)
(* Editing the configuration, and what becomes of it on the host.          *)
(*                                                                         *)
(* A confirmed dialogue is published as the server file and config.toml;   *)
(* then the unit of sing-box gets or loses the hooks that keep Hysteria2's *)
(* redirect table, systemd loads it, and the services are restarted.  A    *)
(* failure puts the files back and takes the same way again.  systemd runs *)
(* the hooks of the unit it has loaded, at every start and stop, also at   *)
(* those nobody asked for; the hook reads config.toml, sing-box the server *)
(* file.                                                                   *)
(*                                                                         *)
(* One command at a time: the operation lock, the comparison of a stale    *)
(* prompt and failing file writes are DeploymentTransaction's.             *)
(***************************************************************************)
EXTENDS DeploymentOptions

CONSTANTS
  Moments,    \* bound: the instants accepted schedules are looked at
  Sessions    \* bounds, by name: [configs, dialogues, edits, faults], what a
              \* host starts with, the dialogues that may be held, [name,
              \* answers], how many of them end in a change, and how many
              \* steps fail, commands die and hosts reboot

VARIABLES
  session,
  config,    \* config.toml
  active,    \* etc/sing-box/config.json
  unit,      \* whether the unit file of sing-box has the hooks
  loaded,    \* whether the unit systemd has loaded has them
  table,     \* the redirect table sbctl_hy2
  running,   \* what the services were started with
  pc, job,   \* the command under way
  settled,   \* nothing was left half done
  edits, faults

files == <<config, active>>
host  == <<unit, loaded, table, running>>
vars  == <<session, files, host, pc, job, settled, edits, faults>>

Fault == faults < Sessions[session].faults /\ faults' = faults + 1

-----------------------------------------------------------------------------
(* What the server file says; who it is that listens. *)
Server(c) ==
  [nodes |-> c.nodes, realitySni |-> c.realitySni, name |-> ServerName(c), api |-> c.api]

Services(c, server) == [server |-> server, daemon |-> DaemonPort(c)]

Transport(name) == IF name \in {"hysteria2", "tuic"} THEN "udp" ELSE "tcp"

(* Who listens where. *)
Listeners(s) ==
  {l \in {<<p, PortOf(s.server, p)>> : p \in Protocols} \cup
          {<<"api", s.server.api>>, <<"daemon", s.daemon>>} : l[2] # None}

(* An administrator's new port must be free for both transports. *)
Taken == IF running = None THEN {} ELSE {l[2] : l \in Listeners(running)}

(* The services come up when no two of them want a port. *)
ComesUp(s) ==
  \A l, k \in Listeners(s) : l[2] = k[2] /\ Transport(l[1]) = Transport(k[1]) => l = k

ASSUME SessionsAssumption ==
  \A s \in DOMAIN Sessions :
    /\ \A c \in Sessions[s].configs : Readable(c) /\ Valid(c) /\ ComesUp(Services(c, Server(c)))
    /\ \A d \in Sessions[s].dialogues : d.name \in Dialogues /\ Understood(d.answers)

(* rules() *)
TableOf(c) ==
  IF c.hopping = None THEN None
  ELSE [interface |-> c.interface, range |-> c.hopping, to |-> c.nodes["hysteria2"].port]

Init ==
  /\ session \in DOMAIN Sessions
  /\ config \in Sessions[session].configs /\ active = Server(config)
  /\ unit = (config.hopping # None) /\ loaded = unit
  /\ table = TableOf(config)
  /\ running = Services(config, active)
  /\ pc = "idle" /\ job = None
  /\ settled = TRUE /\ edits = 0 /\ faults = 0

-----------------------------------------------------------------------------
(***************************************************************************)
(* The dialogue and its publication: a dialogue that changed nothing ends  *)
(* there, the two commands take their way regardless                       *)
(***************************************************************************)
Confirm(dialogue, a) ==
  /\ pc = "idle" /\ edits < Sessions[session].edits
  /\ \E new \in Outcomes(dialogue, config, a, Taken, edits + 1) :
       /\ new # config \/ dialogue \in {"api", "switch-mode"}
       /\ job' = [dialogue |-> dialogue, answered |-> DOMAIN a, new |-> new,
                  config |-> config, active |-> active, unit |-> unit, undo |-> FALSE]
       /\ edits' = edits + 1
  /\ pc' = "confirmed"
  /\ UNCHANGED <<session, files, host, settled, faults>>

Finish ==
  /\ pc' = "idle" /\ job' = None

(* The template changes no service. *)
TemplateOnly(c, new) == new # c /\ [c EXCEPT !.template = new.template] = new

PublishTemplate ==
  /\ pc = "confirmed" /\ TemplateOnly(config, job.new)
  /\ config' = job.new
  /\ Finish
  /\ UNCHANGED <<session, active, host, settled, edits, faults>>

PublishServer ==
  /\ pc = "confirmed" /\ ~TemplateOnly(config, job.new)
  /\ active' = Server(job.new)
  /\ pc' = "config"
  /\ UNCHANGED <<session, config, host, job, settled, edits, faults>>

PublishConfig ==
  /\ pc = "config"
  /\ config' = job.new
  /\ pc' = "reconcile"
  /\ UNCHANGED <<session, active, host, job, settled, edits, faults>>

-----------------------------------------------------------------------------
(***************************************************************************)
(* restart_services                                                        *)
(***************************************************************************)
Hops == config.hopping # None

(* The hooks go, and with them what would have removed the table. *)
RemoveTable ==
  /\ pc = "reconcile" /\ ~Hops /\ unit /\ table # None
  /\ table' = None
  /\ UNCHANGED <<session, files, unit, loaded, running, pc, job, settled, edits, faults>>

(* The hooks go while the table they would remove is there. *)
WriteUnitFirst ==
  /\ pc = "reconcile"
  /\ unit' = Hops
  /\ pc' = IF unit = Hops THEN "restart" ELSE "reload"
  /\ UNCHANGED <<session, files, loaded, table, running, job, settled, edits, faults>>

WriteUnit ==
  /\ pc = "reconcile" /\ ~(~Hops /\ unit /\ table # None)
  /\ unit' = Hops
  /\ pc' = IF unit = Hops THEN "restart" ELSE "reload"
  /\ UNCHANGED <<session, files, loaded, table, running, job, settled, edits, faults>>

Reload ==
  /\ pc = "reload"
  /\ loaded' = unit
  /\ pc' = "restart"
  /\ UNCHANGED <<session, files, unit, table, running, job, settled, edits, faults>>

(* ExecStopPost removes the table, ExecStartPre replaces it. *)
Start ==
  /\ table' = IF loaded THEN TableOf(config) ELSE table
  /\ running' = Services(config, active)

(* A restart that succeeds ends the command; one that was to undo leaves   *)
(* what the command found.                                                 *)
Restart ==
  /\ pc = "restart" /\ ComesUp(Services(config, active))
  /\ Start
  /\ settled' = (job.undo => settled)
  /\ Finish
  /\ UNCHANGED <<session, files, unit, loaded, edits, faults>>

(* nft or systemctl fails, a service does not come up. *)
GivesUp ==
  IF job.undo THEN settled' = FALSE /\ Finish
  ELSE /\ pc' = IF job.dialogue = "switch-mode" THEN "restore" ELSE "undo"
       /\ job' = [job EXCEPT !.undo = TRUE]
       /\ UNCHANGED settled

StepFails ==
  /\ pc \in {"reconcile", "reload"}
  /\ Fault
  /\ GivesUp
  /\ UNCHANGED <<session, files, host, edits>>

RestartFails ==
  /\ pc = "restart"
  /\ \/ ~ComesUp(Services(config, active)) /\ UNCHANGED faults
     \/ Fault
  /\ table' \in {table, IF loaded THEN None ELSE table, IF loaded THEN TableOf(config) ELSE table}
  /\ running' = None
  /\ GivesUp
  /\ UNCHANGED <<session, files, unit, loaded, edits>>

(* restore_config_transaction_locked: the files in the same order. *)
RestoreServer ==
  /\ pc = "undo"
  /\ active' = job.active
  /\ pc' = "undo config"
  /\ UNCHANGED <<session, config, host, job, settled, edits, faults>>

RestoreConfig ==
  /\ pc = "undo config"
  /\ config' = job.config
  /\ pc' = "reconcile"
  /\ UNCHANGED <<session, active, host, job, settled, edits, faults>>

(* switch-mode stops the services, restores every file and unit of its     *)
(* snapshot and reloads (HostLifecycle takes it apart).                    *)
RestoreSnapshot ==
  /\ pc = "restore"
  /\ table' = IF loaded THEN None ELSE table
  /\ running' = None
  /\ active' = job.active /\ config' = job.config
  /\ unit' = job.unit /\ loaded' = job.unit
  /\ pc' = "reconcile"
  /\ UNCHANGED <<session, job, settled, edits, faults>>

-----------------------------------------------------------------------------
(***************************************************************************)
(* What happens beside a command                                           *)
(***************************************************************************)
Dies ==
  /\ pc # "idle" /\ Fault
  /\ settled' = (pc = "confirmed" /\ settled)
  /\ Finish
  /\ UNCHANGED <<session, files, host, edits>>

(* sing-box is restarted on failure, or with a new certificate; the daemon  *)
(* goes on as it is.                                                       *)
ServiceRestarts ==
  LET s == [Services(config, active) EXCEPT
              !.daemon = IF running = None THEN @ ELSE running.daemon]
  IN
  /\ Sessions[session].faults > 0 /\ ComesUp(s)
  /\ table' = IF loaded THEN TableOf(config) ELSE table
  /\ running' = s
  /\ UNCHANGED <<session, files, unit, loaded, pc, job, settled, edits, faults>>

(* The table is gone; systemd loads the unit file that is there. *)
Reboot ==
  /\ Fault
  /\ settled' = (pc \in {"idle", "confirmed"} /\ settled)
  /\ Finish
  /\ loaded' = unit
  /\ table' = IF unit THEN TableOf(config) ELSE None
  /\ running' = IF ComesUp(Services(config, active)) THEN Services(config, active) ELSE None
  /\ UNCHANGED <<session, files, unit, edits>>

Next ==
  \/ \E d \in Sessions[session].dialogues : Confirm(d.name, d.answers)
  \/ PublishTemplate \/ PublishServer \/ PublishConfig
  \/ RemoveTable \/ WriteUnit \/ Reload \/ Restart
  \/ StepFails \/ RestartFails
  \/ RestoreServer \/ RestoreConfig \/ RestoreSnapshot
  \/ Dies \/ ServiceRestarts \/ Reboot

Spec == Init /\ [][Next]_vars

-----------------------------------------------------------------------------
(***************************************************************************)
(* Properties                                                              *)
(***************************************************************************)
Stayed(a, b) == ToSet(a) \cap ToSet(b)

ChangesOnly(old, new, answers, dialogue) ==
  LET answered(subject) == About(subject) \in answers
      same(field) == new[field] = old[field]
      staying == Stayed(old.enabled, new.enabled)
  IN
  /\ \A field \in {"mode", "host", "proxyHost", "interface", "template", "client"} :
       same(field) \/ answered(field)
  /\ same("certificate") \/ answered("certificate") \/ answered("mode")
  /\ same("email") \/ answered("email") \/ (new.email = None /\ new.mode # "direct")
  /\ same("httpPort") \/ answered("httpPort") \/ answered("mode")
  /\ same("listenPort") \/ answered("listenPort") \/ answered("mode")
  /\ same("schedule") \/ {About("policy"), About("zone"), About("anchor")} \cap answers # {}
  /\ same("realitySni") \/ answered("realitySni") \/ "vless-reality" \notin Enabled(new)
  /\ same("sni") \/ answered("sni") \/ Enabled(new) \cap OverTls = {}
  /\ same("hopping") \/ answered("hopping") \/ "hysteria2" \notin Enabled(new)
  /\ same("api") \/ dialogue = "api"
  /\ \A p \in Protocols :
       (p \in Enabled(old)) = (p \in Enabled(new)) \/ EnableQuestion(p) \in answers
  /\ Picked(old.enabled, staying) = Picked(new.enabled, staying)
  /\ \A p \in staying :
       /\ new.nodes[p].secret = old.nodes[p].secret
       /\ PortOf(new, p) = PortOf(old, p) \/ PortQuestion(p) \in answers

(* An edit changes what was answered and what the answers force, and       *)
(* nothing else: a node that stays keeps its place and its credentials,    *)
(* and its port unless that was asked for; hopping goes only with          *)
(* Hysteria2, a server name only with the last protocol that shows it, an  *)
(* e-mail address only when it is of no use; a port of a mode that is left *)
(* goes with it (wizard.rs, apply_options).                                *)
OnlyAnswersChange == job # None => ChangesOnly(job.config, job.new, job.answered, job.dialogue)

(* Who gets what is sent to a port of the interface. *)
Receives(interface, transport, n) ==
  LET hops == /\ transport = "udp" /\ table # None
              /\ table.interface = interface /\ InRange(n, table.range)
  IN  {l[1] : l \in {l \in Listeners(running) :
                      /\ Transport(l[1]) = transport
                      /\ l[2] = IF hops THEN table.to ELSE n}}

(* After a command that succeeded, or was undone, and whatever restarted   *)
(* since: the services are those of the configuration, every node gets     *)
(* what is sent to its port, Hysteria2 the whole range clients are told to *)
(* hop over, and no port is redirected once hopping is off.  A command     *)
(* that died between the unit file and its reload is left out.             *)
PacketsReachTheirNode ==
  pc = "idle" /\ settled /\ loaded = unit /\ running # None =>
    /\ running = Services(config, Server(config))
    /\ \A p \in Enabled(config) : Receives(config.interface, Transport(p), config.nodes[p].port) = {p}
    /\ config.hopping # None =>
         \A n \in config.hopping.low..config.hopping.high :
           Receives(config.interface, "udp", n) = {"hysteria2"}
    /\ config.hopping = None => table = None

(* Every schedule a dialogue was allowed to end with has periods that      *)
(* follow one another without gap, and start when the clock on the wall    *)
(* shows the time they are due at (validate, accounting_period).           *)
Schedules ==
  {[policy |-> "natural-month", zone |-> z, anchor |-> None] : z \in Zones} \cup
  {[policy |-> "anchored-month", zone |-> z, anchor |-> x] : z \in Zones, x \in Anchors}

RegularSchedules == {s \in Schedules : \A t \in Moments : FollowsTheClock(s, t)}

SchedulesFollowTheClock == config.schedule \in RegularSchedules
=============================================================================
