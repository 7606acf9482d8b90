------------------------ MODULE DeploymentTransaction ------------------------
(***************************************************************************)
(* The files of one deployment and the commands that change them.          *)
(*                                                                         *)
(* Every sbctl command that touches the deployment takes the operation     *)
(* lock, replaces files one at a time (each replacement is one atomic      *)
(* rename), restarts the services and, when a step fails, restores what it *)
(* replaced before it drops the lock.  Nothing makes the whole of it       *)
(* atomic: a write may fail in the middle of the publication or of the     *)
(* rollback, the process may die between two renames, and the services may *)
(* read the files at any moment.                                           *)
(*                                                                         *)
(* An artifact's bytes are abstracted to what they are generated from: the *)
(* node model and, for a client preset file, the client template.          *)
(***************************************************************************)
EXTENDS Naturals, FiniteSets

CONSTANTS
  Commands,       \* sbctl processes that may run at the same time
  Nodes,          \* node models: hosts, ports, protocols and their secrets
  Templates,      \* client presets
  NoTemplate,     \* content that does not depend on the preset
  Files,          \* artifact file names the generator owns
  TemplateFiles,  \* the preset-dependent ones (is_template_artifact)
  ServerFile,     \* sing-box-server.json
  FullFile,       \* the full sing-box client profile
  NamesOf,        \* node model -> names generated for it
  Rejected,       \* contents `sing-box check` refuses
  Customised,     \* client overrides or rule lists are present
  Absent,         \* a file that does not exist
  Down,           \* a service that is not running
  Free,           \* nobody holds the operation lock
  MaxSecret,      \* bound: credential rotations
  Prompters,      \* bound: the commands that open a prompt
  Asked,          \* bound: the node models and templates asked for together
  Budgets         \* bound: pairs of steps that fail and processes that die

Configs  == [node : Nodes, template : Templates, secret : Nat]
Contents == [node : Nodes, template : Templates \cup {NoTemplate}]

ASSUME NamesAssumption ==
  /\ NamesOf \in [Nodes -> SUBSET Files]
  /\ \A n \in Nodes : ServerFile \in NamesOf[n] /\ FullFile \in NamesOf[n]
  /\ TemplateFiles \subseteq Files
  /\ ServerFile \in Files \ TemplateFiles
  /\ FullFile \in TemplateFiles

ASSUME ConstantsAssumption ==
  /\ Rejected \subseteq Contents
  /\ Customised \in BOOLEAN
  /\ NoTemplate \notin Templates
  /\ Absent \notin Configs \cup Contents
  /\ Down \notin Configs \cup Contents
  /\ Free \notin Commands
  /\ MaxSecret \in Nat /\ Budgets \subseteq Nat \X Nat

VARIABLES
  config,     \* etc/sbctl/config.toml
  artifact,   \* var/lib/sbctl/artifacts/*
  active,     \* etc/sing-box/config.json
  lock,       \* holder of var/lib/sbctl/.operation.lock
  sbctl,      \* configuration the subscription service loaded at its start
  singbox,    \* server configuration the data plane loaded at its start
  pc,         \* where each command is
  prompt,     \* the interactive change a command was opened with
  job,        \* the transaction of a command that holds the lock
  issued,     \* newest subscription credential generated so far
  faults, crashes,
  suspect,    \* a crash or a failed recovery may have left mixed files
  committed   \* newest credential whose rotation reported success

disk    == <<config, artifact, active>>
service == <<sbctl, singbox>>
budget  == <<faults, crashes>>
vars    == <<config, artifact, active, lock, sbctl, singbox, pc, prompt, job,
             issued, faults, crashes, suspect, committed>>

(* The bytes the generator produces for a file of a configuration. *)
Content(c, f) ==
  [node |-> c.node,
   template |-> IF f \in TemplateFiles THEN c.template ELSE NoTemplate]

Server(c) == Content(c, ServerFile)

(* One file set, as DeploymentSnapshot captures it. *)
Image == [config |-> config, artifact |-> artifact, active |-> active]

Ops == {"initialize", "commit", "activate", "template", "regenerate",
        "credential", "restart"}

Working == {"artifacts", "active", "config", "prune", "finish",
            "undoArtifacts", "undoActive",
            "restoreArtifacts", "restoreActive", "restoreConfig", "reactivate",
            "done", "failed", "unrecovered"}

PCs == {"idle", "editing"} \cup Working

Images == [config   : Configs \cup {Absent},
           artifact : [Files -> Contents \cup {Absent}],
           active   : Contents \cup {Absent}]

Prompts == [expected : Configs \cup {Absent},   \* what the prompt was opened on
            target   : Configs]                 \* what it asks for

Jobs == [op       : Ops,
         target   : Configs,                 \* what is to be published
         snap     : Images,                  \* what rollback returns to
         names    : SUBSET Files,            \* files to publish
         stale    : SUBSET Files,            \* files to prune
         todo     : SUBSET Files,            \* files left in this phase
         sync     : BOOLEAN,                 \* the active file takes part
         fault    : BOOLEAN]                 \* a silent failure was skipped

Goto(c, where)   == pc' = [pc EXCEPT ![c] = where]
SetFile(f, v)    == artifact' = [artifact EXCEPT ![f] = v]
LeftAfter(c, f)  == job[c].todo \ {f}

(* f failing steps and d deaths are within a budget. *)
Affordable(f, d) == \E b \in Budgets : f <= b[1] /\ d <= b[2]
SpendFault       == Affordable(faults + 1, crashes) /\ faults' = faults + 1 /\ UNCHANGED crashes

(* The complete output of one configuration: each generated file and no   *)
(* superseded one.                                                         *)
Generated(c) ==
  [f \in Files |-> IF f \in NamesOf[c.node] THEN Content(c, f) ELSE Absent]

(***************************************************************************)
(* Initially the host has no configuration yet, or the complete output of  *)
(* one configuration; that deployment is installed (its active file exists *)
(* and both services run it) or not.                                       *)
(***************************************************************************)
Init ==
  /\ \/ /\ config = Absent
        /\ artifact = [f \in Files |-> Absent]
        /\ active = Absent
     \/ /\ config \in [node : Nodes, template : Templates, secret : {0}]
        /\ <<config.node, config.template>> \in Asked
        /\ Server(config) \notin Rejected
        /\ artifact = Generated(config)
        /\ active \in {Absent, Server(config)}
  /\ sbctl = IF active = Absent THEN Down ELSE config
  /\ singbox = IF active = Absent THEN Down ELSE active
  /\ lock = Free
  /\ pc = [c \in Commands |-> "idle"]
  /\ prompt = [c \in Commands |-> Absent]
  /\ job = [c \in Commands |-> Absent]
  /\ issued = 0 /\ faults = 0 /\ crashes = 0
  /\ suspect = FALSE /\ committed = 0

-----------------------------------------------------------------------------
(***************************************************************************)
(* Starting.  Everything from taking the lock to the first write only      *)
(* reads, under a lock every writer takes, so it is one step; a refusal    *)
(* there drops the lock again and leaves no trace but the closed prompt.   *)
(***************************************************************************)

(* A wizard is opened on what load() returns, without the lock. *)
OpenWizard(c) ==
  /\ c \in Prompters /\ pc[c] = "idle"
  /\ \E t \in [node : Nodes, template : Templates,
               secret : {IF config = Absent THEN 0 ELSE config.secret}] :
       /\ <<t.node, t.template>> \in Asked
       /\ prompt' = [prompt EXCEPT ![c] = [expected |-> config, target |-> t]]
  /\ Goto(c, "editing")
  /\ UNCHANGED <<disk, lock, service, job, issued, budget, suspect, committed>>

(* The administrator leaves the prompt, or the command is refused. *)
CloseWizard(c) ==
  /\ pc[c] = "editing"
  /\ prompt' = [prompt EXCEPT ![c] = Absent]
  /\ Goto(c, "idle")
  /\ UNCHANGED <<disk, lock, service, job, issued, budget, suspect, committed>>

StaleNamesKept(names, clientsOnly) == {}

StaleNamesEveryFile(names, clientsOnly) ==
  {f \in Files \ names : artifact[f] # Absent}

(* Superseded files: generated names on disk that the target does not have. *)
StaleNames(names, clientsOnly) ==
  {f \in Files \ names : /\ artifact[f] # Absent
                         /\ clientsOnly => f \in TemplateFiles}

(* The merged profile is asked about only when something was merged in or  *)
(* the preset changed.                                                     *)
KernelAccepts(target, clientsOnly) ==
  /\ clientsOnly \/ Server(target) \notin Rejected
  /\ Customised \/ config.template # target.template
       => Content(target, FullFile) \notin Rejected

(* c takes the lock and enters its first phase. *)
Enter(c, op, target, names, stale, sync, where) ==
  /\ lock = Free
  /\ lock' = c
  /\ job' = [job EXCEPT ![c] =
               [op |-> op, target |-> target, snap |-> Image, names |-> names,
                stale |-> stale, todo |-> names, sync |-> sync,
                fault |-> FALSE]]
  /\ Goto(c, where)
  /\ UNCHANGED <<disk, service, prompt, budget, suspect, committed>>

StartApplyIgnoringDrift(c, op, target) ==
  LET clientsOnly == op = "template"
      names   == IF clientsOnly THEN NamesOf[target.node] \cap TemplateFiles
                                ELSE NamesOf[target.node]
      stale   == StaleNames(names, clientsOnly)
      changed == \/ stale # {}
                 \/ \E f \in names : artifact[f] # Content(target, f)
      sync    == ~clientsOnly /\ active # Absent /\ changed
  IN  /\ changed => KernelAccepts(target, clientsOnly)
      /\ Enter(c, op, target, names, stale, sync,
               IF changed THEN "artifacts" ELSE "config")
      /\ UNCHANGED issued

(* apply_transaction_locked up to its first write. *)
StartApply(c, op, target) ==
  LET clientsOnly == op = "template"
      names   == IF clientsOnly THEN NamesOf[target.node] \cap TemplateFiles
                                ELSE NamesOf[target.node]
      stale   == StaleNames(names, clientsOnly)
      changed == \/ stale # {}
                 \/ \E f \in names : artifact[f] # Content(target, f)
      sync    == /\ ~clientsOnly
                 /\ active # Absent
                 /\ changed \/ active # Server(target)
  IN  /\ IF changed \/ sync
         THEN /\ KernelAccepts(target, clientsOnly)
              /\ Enter(c, op, target, names, stale, sync, "artifacts")
         ELSE Enter(c, op, target, names, stale, sync, "config")
      /\ UNCHANGED issued

ConfirmWizardUncompared(c) ==
  /\ pc[c] = "editing" /\ config # Absent
  /\ StartApply(c, "commit", prompt[c].target)

(* commit_config_change: the prompt must still describe the deployment. *)
ConfirmWizard(c) ==
  LET new == prompt[c].target IN
  /\ pc[c] = "editing"
  /\ config = prompt[c].expected
  /\ \/ /\ config = Absent
        /\ Server(new) \notin Rejected
        /\ Enter(c, "initialize", new, NamesOf[new.node], {}, FALSE, "artifacts")
        /\ UNCHANGED issued
     \/ /\ config # Absent
        /\ StartApply(c, IF /\ new # config
                            /\ new = [config EXCEPT !.template = new.template]
                         THEN "template" ELSE "commit", new)

(* config template: reads the configuration under the lock. *)
SwitchTemplate(c) ==
  /\ pc[c] = "idle" /\ config # Absent
  /\ \E t \in Templates \ {config.template} :
       /\ <<config.node, t>> \in Asked
       /\ StartApply(c, "template", [config EXCEPT !.template = t])

(* apply_and_activate_locked on the current configuration. *)
Reapply(c) ==
  /\ pc[c] = "idle" /\ config # Absent
  /\ StartApply(c, "activate", config)

(* config regenerate: also writes the active file, never the configuration. *)
Regenerate(c) ==
  /\ pc[c] = "idle" /\ config # Absent
  /\ Server(config) \notin Rejected
  /\ Customised => Content(config, FullFile) \notin Rejected
  /\ LET names == NamesOf[config.node] IN
     Enter(c, "regenerate", config, names, StaleNames(names, FALSE), TRUE,
           "artifacts")
  /\ UNCHANGED issued

(* credential_transaction of `credential rotate`: a fresh secret. *)
RotateSecret(c) ==
  /\ pc[c] = "idle" /\ config # Absent
  /\ issued < MaxSecret
  /\ issued' = issued + 1
  /\ Enter(c, "credential", [config EXCEPT !.secret = issued + 1],
           {}, {}, FALSE, "config")

(* config restart: checks the file the data plane will load. *)
Restart(c) ==
  /\ pc[c] = "idle" /\ config # Absent
  /\ active # Absent /\ active \notin Rejected
  /\ Enter(c, "restart", config, {}, {}, FALSE, "finish")
  /\ UNCHANGED issued

-----------------------------------------------------------------------------
(***************************************************************************)
(* Publication: artifacts, active file, configuration, superseded files.   *)
(***************************************************************************)
PruneOrFinish(c) == IF job[c].stale = {} THEN "finish" ELSE "prune"

AfterArtifacts(c) == IF job[c].sync THEN "active" ELSE "config"

AfterActive(c) ==
  IF job[c].op = "regenerate" THEN PruneOrFinish(c) ELSE "config"

AfterConfig(c) ==
  CASE job[c].op = "initialize" -> "done"
    [] job[c].op = "credential" -> "finish"
    [] OTHER                    -> PruneOrFinish(c)

(* Entering the pruning phase sets the names it has to remove. *)
Phase(c, where) ==
  /\ Goto(c, where)
  /\ job' = IF where = "prune"
            THEN [job EXCEPT ![c].todo = job[c].stale] ELSE job

WriteArtifact(c, f) ==
  /\ pc[c] = "artifacts" /\ f \in job[c].todo
  /\ SetFile(f, Content(job[c].target, f))
  /\ job' = [job EXCEPT ![c].todo = LeftAfter(c, f)]
  /\ IF LeftAfter(c, f) = {} THEN Goto(c, AfterArtifacts(c)) ELSE UNCHANGED pc
  /\ UNCHANGED <<config, active, lock, service, prompt, issued, budget, suspect,
                 committed>>

WriteActive(c) ==
  /\ pc[c] = "active"
  /\ active' = Server(job[c].target)
  /\ Phase(c, AfterActive(c))
  /\ UNCHANGED <<config, artifact, lock, service, prompt, issued, budget, suspect,
                 committed>>

(* replace_locked, the last write of a configuration transaction. *)
WriteConfig(c) ==
  /\ pc[c] = "config"
  /\ config' = job[c].target
  /\ Phase(c, AfterConfig(c))
  /\ UNCHANGED <<artifact, active, lock, service, prompt, issued, budget, suspect,
                 committed>>

Prune(c, f) ==
  /\ pc[c] = "prune" /\ f \in job[c].todo
  /\ SetFile(f, Absent)
  /\ job' = [job EXCEPT ![c].todo = LeftAfter(c, f)]
  /\ IF LeftAfter(c, f) = {} THEN Goto(c, "finish") ELSE UNCHANGED pc
  /\ UNCHANGED <<config, active, lock, service, prompt, issued, budget, suspect,
                 committed>>

(* A superseded file that cannot be removed ends the pruning with a warning. *)
PruneFails(c) ==
  /\ pc[c] = "prune" /\ SpendFault
  /\ job' = [job EXCEPT ![c].fault = TRUE]
  /\ suspect' = TRUE
  /\ Goto(c, "finish")
  /\ UNCHANGED <<disk, lock, service, prompt, issued, committed>>

(***************************************************************************)
(* A replacement fails.  The file keeps its previous complete version; the *)
(* artifacts replaced so far are put back, and the active file only when   *)
(* its own write was attempted.  A first initialisation puts nothing back, *)
(* a credential change goes on to write the prior configuration bytes.     *)
(***************************************************************************)
CapturedPublishedOnly(c) == job[c].names

Captured(c) ==
  IF job[c].op = "regenerate" THEN job[c].names
                              ELSE job[c].names \cup job[c].stale

WriteFails(c) ==
  /\ pc[c] \in {"artifacts", "active", "config"} /\ SpendFault
  /\ CASE job[c].op = "initialize" ->
            Goto(c, "unrecovered") /\ suspect' = TRUE /\ UNCHANGED job
       [] job[c].op = "credential" ->
            Goto(c, "restoreConfig") /\ UNCHANGED <<suspect, job>>
       [] OTHER ->
            /\ Goto(c, "undoArtifacts")
            /\ job' = [job EXCEPT
                  ![c].todo = Captured(c),
                  ![c].sync = @ /\ pc[c] # "artifacts"]
            /\ UNCHANGED suspect
  /\ UNCHANGED <<disk, lock, service, prompt, issued, committed>>

(* restore_replaced: best effort, a failed write is skipped without a word. *)
UndoStep(c, skip) ==
  IF skip THEN /\ SpendFault
               /\ suspect' = TRUE
          ELSE UNCHANGED <<faults, crashes, suspect>>

UndoArtifact(c, f) ==
  /\ pc[c] = "undoArtifacts" /\ f \in job[c].todo
  /\ \E skip \in BOOLEAN :
       /\ UndoStep(c, skip)
       /\ IF skip THEN UNCHANGED artifact
                  ELSE SetFile(f, job[c].snap.artifact[f])
       /\ job' = [job EXCEPT ![c].todo = LeftAfter(c, f), ![c].fault = @ \/ skip]
  /\ IF LeftAfter(c, f) = {}
       THEN Goto(c, IF job[c].sync THEN "undoActive" ELSE "failed")
       ELSE UNCHANGED pc
  /\ UNCHANGED <<config, active, lock, service, prompt, issued, committed>>

UndoActive(c) ==
  /\ pc[c] = "undoActive"
  /\ \E skip \in BOOLEAN :
       /\ UndoStep(c, skip)
       /\ active' = IF skip THEN active ELSE job[c].snap.active
       /\ job' = [job EXCEPT ![c].fault = @ \/ skip]
  /\ Goto(c, "failed")
  /\ UNCHANGED <<config, artifact, lock, service, prompt, issued, committed>>

-----------------------------------------------------------------------------
(***************************************************************************)
(* Activation: storage permissions and, for the commands that restart, the *)
(* services, which then load the files as they are.  A deployment without  *)
(* an active file has no units to restart.                                 *)
(***************************************************************************)
Restarts(op) == op \in {"commit", "activate", "credential", "restart"}

ServicesLoad ==
  /\ active # Absent
  /\ sbctl' = config /\ singbox' = active

(* A failed restart leaves each service on what it ran, on the new files,  *)
(* or stopped.                                                             *)
ServicesFail ==
  \/ /\ active # Absent /\ SpendFault
     /\ sbctl' \in {sbctl, config, Down}
     /\ singbox' \in {singbox, active, Down}
  \/ /\ active = Absent
     /\ UNCHANGED <<service, budget>>

Finish(c) ==
  /\ pc[c] = "finish"
  /\ \/ Restarts(job[c].op) /\ ServicesLoad
     \/ ~Restarts(job[c].op) /\ UNCHANGED service
     \/ job[c].op = "activate" /\ active = Absent /\ UNCHANGED service
  /\ committed' = IF job[c].op = "credential" THEN config.secret ELSE committed
  /\ Goto(c, "done")
  /\ UNCHANGED <<disk, lock, prompt, job, issued, budget, suspect>>

FinishFails(c) ==
  /\ pc[c] = "finish"
  /\ IF Restarts(job[c].op) THEN ServicesFail
                            ELSE SpendFault /\ UNCHANGED service
  /\ CASE job[c].op = "credential" ->
            Goto(c, "restoreConfig") /\ UNCHANGED <<job, suspect>>
       [] job[c].op = "regenerate" ->
            Goto(c, "unrecovered") /\ UNCHANGED <<job, suspect>>
       [] job[c].op = "restart" ->
            Goto(c, "failed") /\ UNCHANGED <<job, suspect>>
       [] OTHER ->
            /\ Goto(c, "restoreArtifacts")
            /\ job' = [job EXCEPT ![c].todo = Captured(c)]
            /\ UNCHANGED suspect
  /\ UNCHANGED <<disk, lock, prompt, issued, committed>>

(***************************************************************************)
(* restore_config_transaction_locked: the captured files are written back  *)
(* in the order artifacts, active, configuration; the first failed write   *)
(* ends it.  A file that did not exist is removed, and for an artifact a   *)
(* failed removal is ignored.                                              *)
(***************************************************************************)
RestoreArtifact(c, f) ==
  LET prior == job[c].snap.artifact[f] IN
  /\ pc[c] = "restoreArtifacts" /\ f \in job[c].todo
  /\ \/ /\ SetFile(f, prior)
        /\ job' = [job EXCEPT ![c].todo = LeftAfter(c, f)]
        /\ UNCHANGED <<budget, suspect>>
     \/ /\ prior = Absent /\ SpendFault
        /\ job' = [job EXCEPT ![c].todo = LeftAfter(c, f), ![c].fault = TRUE]
        /\ suspect' = TRUE
        /\ UNCHANGED artifact
  /\ IF LeftAfter(c, f) = {} THEN Goto(c, "restoreActive") ELSE UNCHANGED pc
  /\ UNCHANGED <<config, active, lock, service, prompt, issued, committed>>

RestoreActive(c) ==
  /\ pc[c] = "restoreActive"
  /\ active' = job[c].snap.active
  /\ Goto(c, "restoreConfig")
  /\ UNCHANGED <<config, artifact, lock, service, prompt, job, issued, budget,
                 suspect, committed>>

RestoreConfig(c) ==
  /\ pc[c] = "restoreConfig"
  /\ config' = job[c].snap.config
  /\ Goto(c, "reactivate")
  /\ UNCHANGED <<artifact, active, lock, service, prompt, job, issued, budget,
                 suspect, committed>>

RestoreFails(c) ==
  /\ pc[c] \in {"restoreArtifacts", "restoreActive", "restoreConfig"}
  /\ SpendFault
  /\ suspect' = TRUE
  /\ Goto(c, "unrecovered")
  /\ UNCHANGED <<disk, lock, service, prompt, job, issued, committed>>

Reactivate(c) ==
  /\ pc[c] = "reactivate"
  /\ IF job[c].op = "template" THEN UNCHANGED service
     ELSE \/ ServicesLoad
          \/ job[c].op = "activate" /\ active = Absent /\ UNCHANGED service
  /\ Goto(c, "failed")
  /\ UNCHANGED <<disk, lock, prompt, job, issued, budget, suspect, committed>>

ReactivateFails(c) ==
  /\ pc[c] = "reactivate" /\ job[c].op # "template"
  /\ ServicesFail
  /\ suspect' = TRUE
  /\ Goto(c, "unrecovered")
  /\ UNCHANGED <<disk, lock, prompt, job, issued, committed>>

-----------------------------------------------------------------------------
(* A command that published a whole deployment and restarted the services  *)
(* on it clears whatever an earlier crash or failed recovery left behind.  *)
Heals(c) ==
  /\ pc[c] = "done" /\ ~job[c].fault
  /\ job[c].op \in {"commit", "activate"}

(* The guard is dropped: the next command may take the lock. *)
Release(c) ==
  /\ pc[c] \in {"done", "failed", "unrecovered"}
  /\ lock' = Free
  /\ Goto(c, "idle")
  /\ prompt' = [prompt EXCEPT ![c] = Absent]
  /\ job' = [job EXCEPT ![c] = Absent]
  /\ suspect' = (suspect /\ ~Heals(c))
  /\ UNCHANGED <<disk, service, issued, budget, committed>>

(* The process dies; the kernel drops its lock, the files stay. *)
Crash(c) ==
  /\ pc[c] # "idle"
  /\ Affordable(faults, crashes + 1) /\ crashes' = crashes + 1
  /\ lock' = IF lock = c THEN Free ELSE lock
  /\ Goto(c, "idle")
  /\ prompt' = [prompt EXCEPT ![c] = Absent]
  /\ job' = [job EXCEPT ![c] = Absent]
  /\ suspect' = (suspect \/ lock = c)
  /\ UNCHANGED <<disk, service, issued, faults, committed>>

(* systemd restarts a service that died; it loads the files of the moment. *)
ServiceRestarts ==
  /\ Affordable(faults, crashes + 1) /\ crashes' = crashes + 1
  /\ active # Absent /\ config # Absent
  /\ \/ sbctl # Down /\ sbctl' = config /\ UNCHANGED singbox
     \/ singbox # Down /\ singbox' = active /\ UNCHANGED sbctl
  /\ suspect' = (suspect \/ lock # Free)
  /\ UNCHANGED <<disk, lock, pc, prompt, job, issued, faults, committed>>

-----------------------------------------------------------------------------
Begin(c) ==
  \/ OpenWizard(c) \/ CloseWizard(c) \/ ConfirmWizard(c) \/ SwitchTemplate(c)
  \/ Reapply(c) \/ Regenerate(c) \/ RotateSecret(c) \/ Restart(c)

(* What a command does by itself once it holds the lock. *)
Step(c) ==
  \/ \E f \in Files : \/ WriteArtifact(c, f) \/ Prune(c, f)
                      \/ UndoArtifact(c, f) \/ RestoreArtifact(c, f)
  \/ WriteActive(c) \/ WriteConfig(c) \/ WriteFails(c) \/ PruneFails(c)
  \/ UndoActive(c) \/ RestoreActive(c) \/ RestoreConfig(c) \/ RestoreFails(c)
  \/ Finish(c) \/ FinishFails(c) \/ Reactivate(c) \/ ReactivateFails(c)
  \/ Release(c)

Next ==
  \/ \E c \in Commands : Begin(c) \/ Step(c) \/ Crash(c)
  \/ ServiceRestarts

Spec == Init /\ [][Next]_vars

-----------------------------------------------------------------------------
(* Types of the files, the lock, the services and what a command carries.  *)
TypeOK ==
  /\ config \in Configs \cup {Absent}
  /\ artifact \in [Files -> Contents \cup {Absent}]
  /\ active \in Contents \cup {Absent}
  /\ lock \in Commands \cup {Free}
  /\ sbctl \in Configs \cup {Down}
  /\ singbox \in Contents \cup {Down}
  /\ pc \in [Commands -> PCs]
  /\ prompt \in [Commands -> Prompts \cup {Absent}]
  /\ job \in [Commands -> Jobs \cup {Absent}]
  /\ issued \in Nat /\ faults \in Nat /\ crashes \in Nat
  /\ suspect \in BOOLEAN
  /\ committed \in Nat

(* A command that reports a failure with every rollback step done has left *)
(* the configuration, every artifact (the pruned ones too) and the active  *)
(* file exactly as they were when it took the lock, wherever it failed and *)
(* however damaged they already were (restore_replaced and                 *)
(* restore_config_transaction_locked).                                     *)
FailureRestores ==
  \A c \in Commands :
    pc[c] = "failed" /\ ~job[c].fault => Image = job[c].snap

Whole ==
  /\ artifact = Generated(config)
  /\ active \in {Absent, Server(config)}

SameService(a, b) == a.node = b.node /\ a.secret = b.secret

(* With nobody inside, and no crash or failed recovery since the last      *)
(* complete publication, the host holds the complete output of exactly the *)
(* configuration on disk, no superseded artifact survives, and whatever is *)
(* running runs it, through any interleaving of wizards, rotations,        *)
(* regenerations, restarts and their rollbacks.                            *)
QuiescentWhole ==
  lock = Free /\ ~suspect /\ config # Absent =>
    /\ Whole
    /\ sbctl # Down => SameService(sbctl, config)
    /\ singbox # Down => singbox = active

(* A complete publication reaches that state from any mixture an earlier   *)
(* crash left (the drift comparison of apply_transaction_locked).          *)
PublicationHeals ==
  \A c \in Commands :
    Heals(c) => /\ config = job[c].target
                /\ Whole

(* Once a rotation has reported success, no stale prompt, rollback, crash  *)
(* or service restart brings an older subscription credential back, on     *)
(* disk or in the running service (ADR-0033).                              *)
NoSecretResurrection ==
  /\ config # Absent => committed <= config.secret
  /\ sbctl # Down => committed <= sbctl.secret

(* A prompt left open while another command committed publishes nothing    *)
(* derived from what it was opened on (commit_config_change).              *)
StalePromptNeverPublishes ==
  [][\A c \in Commands :
       lock = Free /\ lock' = c /\ prompt[c] # Absent
         => prompt[c].expected = config]_vars

(* Between commands the deployment behaves as if each command replaced all *)
(* of it or none of it at once.                                            *)
Atomic == INSTANCE ReversibleDeployment WITH
  image <- IF lock = Free THEN Image ELSE job[lock].snap

AtomicSpec == Atomic!Spec
=============================================================================
