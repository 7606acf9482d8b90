--------------------- MODULE DeploymentTransaction_proofs ---------------------
(***************************************************************************)
(* Proofs about DeploymentTransaction, for any commands, node models,      *)
(* templates and files, and any bounds.                                    *)
(***************************************************************************)
EXTENDS DeploymentTransaction, TLAPS

(* The phases a first initialisation can be in: it publishes artifacts and *)
(* the configuration, and never restores or restarts anything.             *)
InitializePhases == {"artifacts", "config", "done", "unrecovered"}

(* What ties a command's local state to the lock and the configuration.    *)
Shape ==
  \A c \in Commands :
    /\ pc[c] \in Working <=> lock = c
    /\ pc[c] \in Working => job[c] \in Jobs
    /\ pc[c] = "editing" => prompt[c] \in Prompts
    /\ pc[c] = "idle" => prompt[c] = Absent
    /\ pc[c] \in Working /\ job[c].op # "initialize" =>
         config \in Configs /\ job[c].snap.config \in Configs
    /\ pc[c] \in Working /\ job[c].op = "initialize" =>
         ~job[c].sync /\ pc[c] \in InitializePhases

TypeInv == TypeOK /\ Shape

-----------------------------------------------------------------------------
(* Lemmas about the operators the actions are built from.                  *)

LEMMA ContentTyped ==
  ASSUME NEW c \in Configs, NEW f
  PROVE  Content(c, f) \in Contents
BY DEF Content, Contents, Configs

(* A step of a command changes the working fields of its own job only.     *)
JobStep(c) ==
  /\ job' = [job EXCEPT ![c] = job'[c]]
  /\ job'[c] \in Jobs
  /\ job'[c].op = job[c].op /\ job'[c].snap = job[c].snap
  /\ job'[c].target = job[c].target
  /\ job'[c].names = job[c].names /\ job'[c].stale = job[c].stale

LEMMA JobFields ==
  ASSUME TypeOK, NEW c \in Commands, job[c] \in Jobs,
         NEW todo \in SUBSET Files, NEW sync \in BOOLEAN, NEW fault \in BOOLEAN,
         \/ job' = [job EXCEPT ![c].todo = todo]
         \/ job' = [job EXCEPT ![c].fault = fault]
         \/ job' = [job EXCEPT ![c].todo = todo, ![c].fault = fault]
         \/ job' = [job EXCEPT ![c].todo = todo, ![c].sync = sync]
         \/ job' = job
  PROVE  JobStep(c) /\ job'[c].sync \in {job[c].sync, sync}
<1>1. CASE job' = [job EXCEPT ![c].todo = todo]
  BY <1>1 DEF TypeOK, Jobs, JobStep
<1>2. CASE job' = [job EXCEPT ![c].fault = fault]
  BY <1>2 DEF TypeOK, Jobs, JobStep
<1>3. CASE job' = [job EXCEPT ![c].todo = todo, ![c].fault = fault]
  BY <1>3 DEF TypeOK, Jobs, JobStep
<1>4. CASE job' = [job EXCEPT ![c].todo = todo, ![c].sync = sync]
  BY <1>4 DEF TypeOK, Jobs, JobStep
<1>5. CASE job' = job
  BY <1>5 DEF TypeOK, Jobs, JobStep
<1> QED
  BY <1>1, <1>2, <1>3, <1>4, <1>5

(* A command that goes on with its phase is at the place it was at.        *)
LEMMA Stays ==
  ASSUME TypeOK, NEW c \in Commands, UNCHANGED pc
  PROVE  Goto(c, pc[c])
BY DEF TypeOK, Goto

(* What holds in every phase a command works in.                           *)
LEMMA AtWork ==
  ASSUME TypeInv, NEW c \in Commands, pc[c] \in Working
  PROVE  /\ job[c] \in Jobs
         /\ lock = c
         /\ \A d \in Commands : d # c => pc[d] \notin Working
         /\ job[c].op # "initialize" =>
              config \in Configs /\ job[c].snap.config \in Configs
         /\ job[c].op = "initialize" =>
              ~job[c].sync /\ pc[c] \in InitializePhases
BY DEF TypeInv, Shape

LEMMA Spent ==
  ASSUME TypeOK, SpendFault
  PROVE  faults' \in Nat /\ crashes' \in Nat
BY DEF TypeOK, SpendFault

-----------------------------------------------------------------------------
(* Type correctness.                                                       *)

LEMMA TypeInit == Init => TypeInv
<1> SUFFICES ASSUME Init PROVE TypeInv
  OBVIOUS
<1> USE NamesAssumption, ConstantsAssumption
<1>1. config \in Configs \cup {Absent}
  BY DEF Init, Configs
<1>2. artifact \in [Files -> Contents \cup {Absent}]
  BY ContentTyped DEF Init, Configs, Generated
<1>3. active \in Contents \cup {Absent}
  BY ContentTyped DEF Init, Configs, Server
<1>4. sbctl \in Configs \cup {Down} /\ singbox \in Contents \cup {Down}
  BY <1>1, <1>3 DEF Init, Configs
<1>5. /\ lock \in Commands \cup {Free}
      /\ pc \in [Commands -> PCs]
      /\ prompt \in [Commands -> Prompts \cup {Absent}]
      /\ job \in [Commands -> Jobs \cup {Absent}]
      /\ issued \in Nat /\ faults \in Nat /\ crashes \in Nat
      /\ suspect \in BOOLEAN /\ committed \in Nat
  BY DEF Init, PCs
<1>6. Shape
  BY DEF Init, Shape, Working
<1> QED
  BY <1>1, <1>2, <1>3, <1>4, <1>5, <1>6 DEF TypeInv, TypeOK

(* A command takes the lock: what it enters with is a job.                 *)
LEMMA TypeEnter ==
  ASSUME TypeInv, NEW c \in Commands, pc[c] \in {"idle", "editing"},
         NEW op \in Ops, NEW target \in Configs, NEW names \in SUBSET Files,
         NEW stale \in SUBSET Files, NEW sync \in BOOLEAN, NEW where \in Working,
         op # "initialize" => config # Absent,
         op = "initialize" => ~sync /\ where \in InitializePhases,
         Enter(c, op, target, names, stale, sync, where), issued' \in Nat
  PROVE  TypeInv'
<1> USE NamesAssumption, ConstantsAssumption DEF TypeInv
<1>1. Image \in Images
  BY DEF TypeOK, Image, Images
<1>2. [op |-> op, target |-> target, snap |-> Image, names |-> names,
       stale |-> stale, todo |-> names, sync |-> sync, fault |-> FALSE] \in Jobs
  BY <1>1 DEF Jobs
<1>3. TypeOK'
  BY <1>2 DEF TypeOK, Enter, Goto, PCs, disk, service, budget
<1>4. Shape'
  <2> SUFFICES ASSUME NEW d \in Commands PROVE Shape!(d)'
    BY DEF Shape
  <2>1. CASE d = c
    BY <1>2, <2>1 DEF TypeOK, Shape, Enter, Goto, Working, disk, Image
  <2>2. CASE d # c
    BY <2>2 DEF TypeOK, Shape, Enter, Goto, Working, disk
  <2> QED
    BY <2>1, <2>2
<1> QED
  BY <1>3, <1>4

(* A command that works changes its job and goes to another phase.         *)
LEMMA TypeStep ==
  ASSUME TypeInv, NEW c \in Commands, pc[c] \in Working,
         config' \in Configs \cup {Absent},
         job[c].op # "initialize" => config' \in Configs,
         artifact' \in [Files -> Contents \cup {Absent}],
         active' \in Contents \cup {Absent},
         sbctl' \in Configs \cup {Down}, singbox' \in Contents \cup {Down},
         NEW where \in Working, Goto(c, where), UNCHANGED <<lock, prompt, issued>>,
         JobStep(c),
         job[c].op = "initialize" => ~job'[c].sync /\ where \in InitializePhases,
         faults' \in Nat, crashes' \in Nat, suspect' \in BOOLEAN,
         committed' \in Nat
  PROVE  TypeInv'
<1> USE NamesAssumption, ConstantsAssumption DEF TypeInv
<1>1. TypeOK'
  BY AtWork DEF TypeOK, Goto, PCs, JobStep
<1>2. Shape'
  <2> SUFFICES ASSUME NEW d \in Commands PROVE Shape!(d)'
    BY DEF Shape
  <2>1. CASE d = c
    BY <2>1, AtWork DEF TypeOK, Shape, Goto, Working, JobStep
  <2>2. CASE d # c
    BY <2>2, AtWork DEF TypeOK, Shape, Goto, Working, JobStep
  <2> QED
    BY <2>1, <2>2
<1> QED
  BY <1>1, <1>2

LEMMA TypeWriteArtifact ==
  ASSUME TypeInv, NEW c \in Commands, NEW f \in Files, WriteArtifact(c, f)
  PROVE  TypeInv' /\ JobStep(c)
<1>1. pc[c] \in Working /\ pc[c] = "artifacts"
  BY DEF WriteArtifact, Working
<1>2. PICK where \in Working :
        /\ Goto(c, where)
        /\ job[c].op = "initialize" => where \in InitializePhases
  BY <1>1, AtWork, Stays
     DEF WriteArtifact, TypeInv, AfterArtifacts, Working, InitializePhases
<1>3. JobStep(c) /\ job'[c].sync = job[c].sync
  BY <1>1, AtWork, JobFields DEF WriteArtifact, LeftAfter, TypeInv, Jobs
<1>4. artifact' \in [Files -> Contents \cup {Absent}]
  BY <1>1, AtWork, ContentTyped DEF WriteArtifact, SetFile, TypeInv, TypeOK, Jobs
<1> QED
  BY <1>1, <1>2, <1>3, <1>4, AtWork, TypeStep
     DEF WriteArtifact, TypeInv, TypeOK, service, budget

LEMMA PhaseStep ==
  ASSUME TypeInv, NEW c \in Commands, pc[c] \in Working,
         NEW where \in Working, Phase(c, where)
  PROVE  JobStep(c) /\ job'[c].sync = job[c].sync /\ Goto(c, where)
BY AtWork, JobFields DEF Phase, TypeInv, Jobs

LEMMA TypeWriteActive ==
  ASSUME TypeInv, NEW c \in Commands, WriteActive(c)
  PROVE  TypeInv' /\ JobStep(c)
<1>1. pc[c] \in Working /\ pc[c] = "active" /\ job[c].op # "initialize"
  BY AtWork DEF WriteActive, Working, InitializePhases
<1>2. AfterActive(c) \in Working
  BY DEF AfterActive, PruneOrFinish, Working
<1>3. JobStep(c) /\ Goto(c, AfterActive(c))
  BY <1>1, <1>2, PhaseStep DEF WriteActive
<1>4. active' \in Contents \cup {Absent}
  BY <1>1, AtWork, ContentTyped DEF WriteActive, Server, Jobs
<1> QED
  BY <1>1, <1>2, <1>3, <1>4, AtWork, TypeStep
     DEF WriteActive, TypeInv, TypeOK, service, budget

LEMMA TypeWriteConfig ==
  ASSUME TypeInv, NEW c \in Commands, WriteConfig(c)
  PROVE  TypeInv' /\ JobStep(c)
<1>1. pc[c] \in Working /\ pc[c] = "config"
  BY DEF WriteConfig, Working
<1>2. AfterConfig(c) \in Working
  BY DEF AfterConfig, PruneOrFinish, Working
<1>3. JobStep(c) /\ job'[c].sync = job[c].sync /\ Goto(c, AfterConfig(c))
  BY <1>1, <1>2, PhaseStep DEF WriteConfig
<1>4. config' \in Configs
  BY <1>1, AtWork DEF WriteConfig, Jobs
<1>5. job[c].op = "initialize" => AfterConfig(c) \in InitializePhases
  BY DEF AfterConfig, InitializePhases
<1> QED
  BY <1>1, <1>2, <1>3, <1>4, <1>5, AtWork, TypeStep
     DEF WriteConfig, TypeInv, TypeOK, service, budget

LEMMA TypePrune ==
  ASSUME TypeInv, NEW c \in Commands, NEW f \in Files, Prune(c, f)
  PROVE  TypeInv' /\ JobStep(c)
<1>1. pc[c] \in Working /\ job[c].op # "initialize"
  BY AtWork DEF Prune, Working, InitializePhases
<1>2. PICK where \in Working : Goto(c, where)
  BY <1>1, Stays DEF Prune, TypeInv, Working
<1>3. JobStep(c)
  BY <1>1, AtWork, JobFields DEF Prune, LeftAfter, TypeInv, Jobs
<1>4. artifact' \in [Files -> Contents \cup {Absent}]
  BY DEF Prune, SetFile, TypeInv, TypeOK
<1> QED
  BY <1>1, <1>2, <1>3, <1>4, AtWork, TypeStep
     DEF Prune, TypeInv, TypeOK, service, budget

LEMMA TypePruneFails ==
  ASSUME TypeInv, NEW c \in Commands, PruneFails(c)
  PROVE  TypeInv' /\ JobStep(c)
<1>1. pc[c] \in Working /\ job[c].op # "initialize" /\ Goto(c, "finish")
  BY AtWork DEF PruneFails, Working, InitializePhases
<1>2. JobStep(c)
  BY <1>1, AtWork, JobFields DEF PruneFails, TypeInv, Jobs
<1>3. suspect' \in BOOLEAN
  BY DEF PruneFails
<1> QED
  BY <1>1, <1>2, <1>3, AtWork, Spent, TypeStep
     DEF PruneFails, TypeInv, TypeOK, disk, service, Working

LEMMA TypeWriteFails ==
  ASSUME TypeInv, NEW c \in Commands, WriteFails(c)
  PROVE  TypeInv' /\ JobStep(c)
<1>1. pc[c] \in Working
  BY DEF WriteFails, Working
<1>2. PICK where \in {"unrecovered", "restoreConfig", "undoArtifacts"} :
        /\ Goto(c, where)
        /\ job[c].op = "initialize" => where = "unrecovered"
  BY DEF WriteFails
<1>3. /\ JobStep(c)
      /\ job[c].op = "initialize" => job'[c].sync = job[c].sync
  <2>1. CASE job[c].op \in {"initialize", "credential"}
    BY <2>1, <1>1, AtWork, JobFields DEF WriteFails, TypeInv, Jobs
  <2>2. CASE job[c].op \notin {"initialize", "credential"}
    <3>1. Captured(c) \in SUBSET Files
      BY <1>1, AtWork DEF Captured, Jobs
    <3>2. (job[c].sync /\ pc[c] # "artifacts") \in BOOLEAN
      OBVIOUS
    <3>3. job' = [job EXCEPT ![c].todo = Captured(c),
                             ![c].sync = job[c].sync /\ pc[c] # "artifacts"]
      BY <2>2, <1>1, AtWork DEF WriteFails, TypeInv, TypeOK, Jobs
    <3> QED
      BY <2>2, <3>1, <3>2, <3>3, <1>1, AtWork, JobFields DEF TypeInv
  <2> QED
    BY <2>1, <2>2
<1>4. suspect' \in BOOLEAN
  BY DEF WriteFails, TypeInv, TypeOK
<1>5. faults' \in Nat /\ crashes' \in Nat
  BY Spent DEF WriteFails, TypeInv
<1> QED
  BY <1>1, <1>2, <1>3, <1>4, <1>5, AtWork, TypeStep
     DEF WriteFails, TypeInv, TypeOK, disk, service, Working, InitializePhases

LEMMA TypeUndoArtifact ==
  ASSUME TypeInv, NEW c \in Commands, NEW f \in Files, UndoArtifact(c, f)
  PROVE  TypeInv' /\ JobStep(c)
<1>1. pc[c] \in Working /\ job[c].op # "initialize"
  BY AtWork DEF UndoArtifact, Working, InitializePhases
<1>2. PICK where \in Working : Goto(c, where)
  BY <1>1, Stays DEF UndoArtifact, TypeInv, Working
<1> PICK skip \in BOOLEAN :
      /\ UndoStep(c, skip)
      /\ IF skip THEN UNCHANGED artifact
                 ELSE SetFile(f, job[c].snap.artifact[f])
      /\ job' = [job EXCEPT ![c].todo = LeftAfter(c, f), ![c].fault = @ \/ skip]
  BY DEF UndoArtifact
<1>3. JobStep(c)
  <2>1. (job[c].fault \/ skip) \in BOOLEAN
    OBVIOUS
  <2>2. job' = [job EXCEPT ![c].todo = LeftAfter(c, f),
                           ![c].fault = job[c].fault \/ skip]
    BY <1>1, AtWork DEF TypeInv, TypeOK, Jobs
  <2> QED
    BY <2>1, <2>2, <1>1, AtWork, JobFields DEF LeftAfter, TypeInv, Jobs
<1>4. artifact' \in [Files -> Contents \cup {Absent}]
  BY ZenonT(40), <1>1, AtWork DEF SetFile, TypeInv, TypeOK, Jobs, Images
<1>5. suspect' \in BOOLEAN
  BY DEF UndoStep, TypeInv, TypeOK
<1>6. faults' \in Nat /\ crashes' \in Nat
  BY Spent DEF UndoStep, TypeInv, TypeOK
<1> QED
  BY <1>1, <1>2, <1>3, <1>4, <1>5, <1>6, AtWork, TypeStep
     DEF UndoArtifact, TypeInv, TypeOK, service

LEMMA TypeUndoActive ==
  ASSUME TypeInv, NEW c \in Commands, UndoActive(c)
  PROVE  TypeInv' /\ JobStep(c)
<1>1. pc[c] \in Working /\ job[c].op # "initialize" /\ Goto(c, "failed")
  BY AtWork DEF UndoActive, Working, InitializePhases
<1> PICK skip \in BOOLEAN :
      /\ UndoStep(c, skip)
      /\ active' = IF skip THEN active ELSE job[c].snap.active
      /\ job' = [job EXCEPT ![c].fault = @ \/ skip]
  BY DEF UndoActive
<1>2. JobStep(c)
  <2>1. (job[c].fault \/ skip) \in BOOLEAN
    OBVIOUS
  <2>2. job' = [job EXCEPT ![c].fault = job[c].fault \/ skip]
    BY <1>1, AtWork DEF TypeInv, TypeOK, Jobs
  <2> QED
    BY <2>1, <2>2, <1>1, AtWork, JobFields DEF TypeInv, Jobs
<1>3. active' \in Contents \cup {Absent}
  BY <1>1, AtWork DEF TypeInv, TypeOK, Jobs, Images
<1>4. suspect' \in BOOLEAN
  BY DEF UndoStep, TypeInv, TypeOK
<1>5. faults' \in Nat /\ crashes' \in Nat
  BY Spent DEF UndoStep, TypeInv, TypeOK
<1> QED
  BY <1>1, <1>2, <1>3, <1>4, <1>5, AtWork, TypeStep
     DEF UndoActive, TypeInv, TypeOK, service, Working

LEMMA ServicesTyped ==
  ASSUME TypeOK, config \in Configs, ServicesLoad \/ ServicesFail
  PROVE  /\ sbctl' \in Configs \cup {Down} /\ singbox' \in Contents \cup {Down}
         /\ ServicesFail => faults' \in Nat /\ crashes' \in Nat
<1>1. CASE ServicesLoad
  BY <1>1, Spent DEF ServicesLoad, ServicesFail, TypeOK, service, budget
<1>2. CASE ServicesFail
  BY <1>2, Spent DEF ServicesFail, TypeOK, service, budget
<1> QED
  BY <1>1, <1>2

LEMMA TypeFinish ==
  ASSUME TypeInv, NEW c \in Commands, Finish(c)
  PROVE  TypeInv' /\ JobStep(c)
<1>1. pc[c] \in Working /\ job[c].op # "initialize" /\ Goto(c, "done")
  BY AtWork DEF Finish, Working, InitializePhases
<1>2. JobStep(c)
  BY <1>1, AtWork, JobFields DEF Finish, TypeInv, Jobs
<1>3. sbctl' \in Configs \cup {Down} /\ singbox' \in Contents \cup {Down}
  BY <1>1, AtWork, ServicesTyped DEF Finish, TypeInv, TypeOK, service
<1>4. committed' \in Nat
  BY <1>1, AtWork DEF Finish, TypeInv, TypeOK, Configs
<1> QED
  BY <1>1, <1>2, <1>3, <1>4, AtWork, TypeStep
     DEF Finish, TypeInv, TypeOK, disk, budget, Working

LEMMA TypeFinishFails ==
  ASSUME TypeInv, NEW c \in Commands, FinishFails(c)
  PROVE  TypeInv' /\ JobStep(c)
<1>1. pc[c] \in Working /\ job[c].op # "initialize"
  BY AtWork DEF FinishFails, Working, InitializePhases
<1>2. PICK where \in Working : Goto(c, where)
  BY DEF FinishFails, Working
<1>3. Captured(c) \in SUBSET Files
  BY <1>1, AtWork DEF Captured, Jobs
<1>4. JobStep(c)
  BY <1>1, <1>3, AtWork, JobFields DEF FinishFails, TypeInv, Jobs
<1>5. sbctl' \in Configs \cup {Down} /\ singbox' \in Contents \cup {Down}
  BY <1>1, AtWork, ServicesTyped DEF FinishFails, TypeInv, TypeOK, service
<1>6. faults' \in Nat /\ crashes' \in Nat
  BY <1>1, AtWork, ServicesTyped, Spent DEF FinishFails, TypeInv
<1>7. suspect' \in BOOLEAN
  BY DEF FinishFails, TypeInv, TypeOK
<1> QED
  BY <1>1, <1>2, <1>4, <1>5, <1>6, <1>7, AtWork, TypeStep
     DEF FinishFails, TypeInv, TypeOK, disk

LEMMA TypeRestoreArtifact ==
  ASSUME TypeInv, NEW c \in Commands, NEW f \in Files, RestoreArtifact(c, f)
  PROVE  TypeInv' /\ JobStep(c)
<1>1. pc[c] \in Working /\ job[c].op # "initialize"
  BY AtWork DEF RestoreArtifact, Working, InitializePhases
<1>2. PICK where \in Working : Goto(c, where)
  BY <1>1, Stays DEF RestoreArtifact, TypeInv, Working
<1>3. JobStep(c)
  BY <1>1, AtWork, JobFields DEF RestoreArtifact, LeftAfter, TypeInv, Jobs
<1>4. artifact' \in [Files -> Contents \cup {Absent}]
  BY <1>1, AtWork DEF RestoreArtifact, SetFile, TypeInv, TypeOK, Jobs, Images
<1>5. suspect' \in BOOLEAN
  BY DEF RestoreArtifact, TypeInv, TypeOK
<1>6. faults' \in Nat /\ crashes' \in Nat
  BY Spent DEF RestoreArtifact, TypeInv, TypeOK, budget
<1> QED
  BY <1>1, <1>2, <1>3, <1>4, <1>5, <1>6, AtWork, TypeStep
     DEF RestoreArtifact, TypeInv, TypeOK, service

LEMMA TypeRestoreActive ==
  ASSUME TypeInv, NEW c \in Commands, RestoreActive(c)
  PROVE  TypeInv' /\ JobStep(c)
<1>1. pc[c] \in Working /\ job[c].op # "initialize" /\ Goto(c, "restoreConfig")
  BY AtWork DEF RestoreActive, Working, InitializePhases
<1>2. JobStep(c)
  BY <1>1, AtWork, JobFields DEF RestoreActive, TypeInv, Jobs
<1>3. active' \in Contents \cup {Absent}
  BY <1>1, AtWork DEF RestoreActive, Jobs, Images
<1> QED
  BY <1>1, <1>2, <1>3, AtWork, TypeStep
     DEF RestoreActive, TypeInv, TypeOK, service, budget, Working

LEMMA TypeRestoreConfig ==
  ASSUME TypeInv, NEW c \in Commands, RestoreConfig(c)
  PROVE  TypeInv' /\ JobStep(c)
<1>1. pc[c] \in Working /\ job[c].op # "initialize" /\ Goto(c, "reactivate")
  BY AtWork DEF RestoreConfig, Working, InitializePhases
<1>2. JobStep(c)
  BY <1>1, AtWork, JobFields DEF RestoreConfig, TypeInv, Jobs
<1>3. config' \in Configs
  BY <1>1, AtWork DEF RestoreConfig
<1> QED
  BY <1>1, <1>2, <1>3, AtWork, TypeStep
     DEF RestoreConfig, TypeInv, TypeOK, service, budget, Working

LEMMA TypeRestoreFails ==
  ASSUME TypeInv, NEW c \in Commands, RestoreFails(c)
  PROVE  TypeInv' /\ JobStep(c)
<1>1. pc[c] \in Working /\ job[c].op # "initialize" /\ Goto(c, "unrecovered")
  BY AtWork DEF RestoreFails, Working, InitializePhases
<1>2. JobStep(c)
  BY <1>1, AtWork, JobFields DEF RestoreFails, TypeInv, Jobs
<1>3. suspect' \in BOOLEAN
  BY DEF RestoreFails
<1> QED
  BY <1>1, <1>2, <1>3, AtWork, Spent, TypeStep
     DEF RestoreFails, TypeInv, TypeOK, disk, service, Working

LEMMA TypeReactivate ==
  ASSUME TypeInv, NEW c \in Commands, Reactivate(c)
  PROVE  TypeInv' /\ JobStep(c)
<1>1. pc[c] \in Working /\ job[c].op # "initialize" /\ Goto(c, "failed")
  BY AtWork DEF Reactivate, Working, InitializePhases
<1>2. JobStep(c)
  BY <1>1, AtWork, JobFields DEF Reactivate, TypeInv, Jobs
<1>3. sbctl' \in Configs \cup {Down} /\ singbox' \in Contents \cup {Down}
  BY <1>1, AtWork, ServicesTyped DEF Reactivate, TypeInv, TypeOK, service
<1> QED
  BY <1>1, <1>2, <1>3, AtWork, TypeStep
     DEF Reactivate, TypeInv, TypeOK, disk, budget, Working

LEMMA TypeReactivateFails ==
  ASSUME TypeInv, NEW c \in Commands, ReactivateFails(c)
  PROVE  TypeInv' /\ JobStep(c)
<1>1. pc[c] \in Working /\ job[c].op # "initialize" /\ Goto(c, "unrecovered")
  BY AtWork DEF ReactivateFails, Working, InitializePhases
<1>2. JobStep(c)
  BY <1>1, AtWork, JobFields DEF ReactivateFails, TypeInv, Jobs
<1>3. /\ sbctl' \in Configs \cup {Down} /\ singbox' \in Contents \cup {Down}
      /\ faults' \in Nat /\ crashes' \in Nat
  BY <1>1, AtWork, ServicesTyped DEF ReactivateFails, TypeInv
<1>4. suspect' \in BOOLEAN
  BY DEF ReactivateFails
<1> QED
  BY <1>1, <1>2, <1>3, <1>4, AtWork, TypeStep
     DEF ReactivateFails, TypeInv, TypeOK, disk, Working

(* The lock is dropped, by the command or by the kernel when it dies.      *)
LEMMA TypeLeave ==
  ASSUME TypeInv, NEW c \in Commands, Release(c) \/ Crash(c)
  PROVE  TypeInv'
<1> USE NamesAssumption, ConstantsAssumption DEF TypeInv
<1>1. suspect' \in BOOLEAN
  BY DEF Release, Crash, TypeOK
<1>2. faults' \in Nat /\ crashes' \in Nat
  BY DEF Release, Crash, TypeOK, budget
<1>3. TypeOK'
  BY <1>1, <1>2 DEF TypeOK, Release, Crash, Goto, PCs, disk, service
<1>4. Shape'
  <2> SUFFICES ASSUME NEW d \in Commands PROVE Shape!(d)'
    BY DEF Shape
  <2>1. CASE d = c
    BY <2>1 DEF TypeOK, Shape, Release, Crash, Goto, Working, disk
  <2>2. CASE d # c
    BY <2>2 DEF TypeOK, Shape, Release, Crash, Goto, Working, disk
  <2> QED
    BY <2>1, <2>2
<1> QED
  BY <1>3, <1>4

LEMMA TypeOpenWizard ==
  ASSUME TypeInv, NEW c \in Commands, OpenWizard(c)
  PROVE  TypeInv'
<1> USE NamesAssumption, ConstantsAssumption DEF TypeInv
<1> PICK t \in [node : Nodes, template : Templates,
               secret : {IF config = Absent THEN 0 ELSE config.secret}] :
       prompt' = [prompt EXCEPT ![c] = [expected |-> config, target |-> t]]
  BY DEF OpenWizard
<1>1. t \in Configs
  BY DEF TypeOK, Configs
<1>2. [expected |-> config, target |-> t] \in Prompts
  BY <1>1 DEF TypeOK, Prompts
<1>3. TypeOK'
  BY <1>2 DEF TypeOK, OpenWizard, Goto, PCs, disk, service, budget
<1>4. Shape'
  BY <1>2 DEF TypeOK, Shape, OpenWizard, Goto, Working, disk
<1> QED
  BY <1>3, <1>4

LEMMA TypeCloseWizard ==
  ASSUME TypeInv, NEW c \in Commands, CloseWizard(c)
  PROVE  TypeInv'
<1> USE NamesAssumption, ConstantsAssumption DEF TypeInv
<1>1. TypeOK'
  BY DEF TypeOK, CloseWizard, Goto, PCs, disk, service, budget
<1>2. Shape'
  BY DEF TypeOK, Shape, CloseWizard, Goto, Working, disk
<1> QED
  BY <1>1, <1>2

LEMMA TypeServiceRestarts ==
  ASSUME TypeInv, ServiceRestarts
  PROVE  TypeInv'
<1> USE DEF TypeInv
<1>1. suspect' \in BOOLEAN
  BY DEF ServiceRestarts, TypeOK
<1>2. TypeOK'
  BY <1>1 DEF TypeOK, ServiceRestarts, disk
<1>3. Shape'
  BY DEF Shape, ServiceRestarts, disk
<1> QED
  BY <1>2, <1>3

LEMMA TypeStartApply ==
  ASSUME TypeInv, NEW c \in Commands, pc[c] \in {"idle", "editing"},
         config # Absent, NEW op \in Ops \ {"initialize"},
         NEW target \in Configs, StartApply(c, op, target)
  PROVE  TypeInv'
<1> USE NamesAssumption
<1> DEFINE clientsOnly == op = "template"
           names == IF clientsOnly THEN NamesOf[target.node] \cap TemplateFiles
                                   ELSE NamesOf[target.node]
           stale == StaleNames(names, clientsOnly)
           changed == \/ stale # {}
                      \/ \E f \in names : artifact[f] # Content(target, f)
           sync == /\ ~clientsOnly
                   /\ active # Absent
                   /\ changed \/ active # Server(target)
<1>1. names \in SUBSET Files
  BY DEF Configs
<1>2. stale \in SUBSET Files
  BY DEF StaleNames
<1>3. sync \in BOOLEAN
  OBVIOUS
<1>4. PICK where \in {"artifacts", "config"} :
        Enter(c, op, target, names, stale, sync, where)
  BY DEF StartApply
<1>5. issued' \in Nat
  BY DEF StartApply, TypeInv, TypeOK
<1> HIDE DEF names, stale, sync
<1> QED
  BY <1>1, <1>2, <1>3, <1>4, <1>5, TypeEnter DEF Working

LEMMA TypeConfirmWizard ==
  ASSUME TypeInv, NEW c \in Commands, ConfirmWizard(c)
  PROVE  TypeInv'
<1> USE NamesAssumption
<1> DEFINE new == prompt[c].target
           op == IF /\ new # config
                    /\ new = [config EXCEPT !.template = new.template]
                 THEN "template" ELSE "commit"
<1>1. pc[c] = "editing" /\ new \in Configs
  BY DEF ConfirmWizard, TypeInv, Shape, Prompts
<1>2. CASE config = Absent
  <2>1. Enter(c, "initialize", new, NamesOf[new.node], {}, FALSE, "artifacts")
        /\ issued' = issued
    BY <1>2 DEF ConfirmWizard
  <2>2. NamesOf[new.node] \in SUBSET Files
    BY <1>1 DEF Configs
  <2> QED
    BY <1>1, <2>1, <2>2, TypeEnter
       DEF Ops, Working, InitializePhases, TypeInv, TypeOK
<1>3. CASE config # Absent
  <2>1. StartApply(c, op, new)
    BY <1>3 DEF ConfirmWizard
  <2>2. op \in Ops \ {"initialize"}
    BY DEF Ops
  <2> HIDE DEF op
  <2> QED
    BY <1>1, <1>3, <2>1, <2>2, TypeStartApply
<1> QED
  BY <1>2, <1>3

LEMMA TypeSwitchTemplate ==
  ASSUME TypeInv, NEW c \in Commands, SwitchTemplate(c)
  PROVE  TypeInv'
<1> PICK t \in Templates \ {config.template} :
       StartApply(c, "template", [config EXCEPT !.template = t])
  BY DEF SwitchTemplate
<1>1. [config EXCEPT !.template = t] \in Configs
  BY DEF SwitchTemplate, TypeInv, TypeOK, Configs
<1> QED
  BY <1>1, TypeStartApply DEF SwitchTemplate, Ops

LEMMA TypeReapply ==
  ASSUME TypeInv, NEW c \in Commands, Reapply(c)
  PROVE  TypeInv'
BY TypeStartApply DEF Reapply, Ops, TypeInv, TypeOK

LEMMA TypeRegenerate ==
  ASSUME TypeInv, NEW c \in Commands, Regenerate(c)
  PROVE  TypeInv'
<1> USE NamesAssumption
<1> DEFINE names == NamesOf[config.node]
           stale == StaleNames(names, FALSE)
<1>1. config \in Configs
  BY DEF Regenerate, TypeInv, TypeOK
<1>2. names \in SUBSET Files /\ stale \in SUBSET Files
  BY <1>1 DEF Configs, StaleNames
<1>3. /\ pc[c] = "idle" /\ config # Absent
      /\ Enter(c, "regenerate", config, names, stale, TRUE, "artifacts")
      /\ issued' \in Nat
  BY DEF Regenerate, TypeInv, TypeOK
<1> HIDE DEF names, stale
<1> QED
  BY <1>1, <1>2, <1>3, TypeEnter DEF Ops, Working

LEMMA TypeRotateSecret ==
  ASSUME TypeInv, NEW c \in Commands, RotateSecret(c)
  PROVE  TypeInv'
<1>1. [config EXCEPT !.secret = issued + 1] \in Configs /\ issued' \in Nat
  BY DEF RotateSecret, TypeInv, TypeOK, Configs
<1>2. /\ pc[c] = "idle" /\ config # Absent
      /\ Enter(c, "credential", [config EXCEPT !.secret = issued + 1],
               {}, {}, FALSE, "config")
  BY DEF RotateSecret
<1> QED
  BY <1>1, <1>2, TypeEnter DEF Ops, Working

LEMMA TypeRestart ==
  ASSUME TypeInv, NEW c \in Commands, Restart(c)
  PROVE  TypeInv'
BY TypeEnter DEF Restart, Ops, Working, TypeInv, TypeOK

LEMMA TypeNext == TypeInv /\ [Next]_vars => TypeInv'
<1> SUFFICES ASSUME TypeInv, [Next]_vars PROVE TypeInv'
  OBVIOUS
<1>1. CASE UNCHANGED vars
  BY <1>1 DEF TypeInv, TypeOK, Shape, vars
<1>2. ASSUME NEW c \in Commands, Begin(c) PROVE TypeInv'
  BY <1>2, TypeOpenWizard, TypeCloseWizard, TypeConfirmWizard,
     TypeSwitchTemplate, TypeReapply, TypeRegenerate, TypeRotateSecret,
     TypeRestart DEF Begin
<1>3. ASSUME NEW c \in Commands, Step(c) PROVE TypeInv'
  BY <1>3, TypeWriteArtifact, TypePrune, TypeUndoArtifact, TypeRestoreArtifact,
     TypeWriteActive, TypeWriteConfig, TypeWriteFails, TypePruneFails,
     TypeUndoActive, TypeRestoreActive, TypeRestoreConfig, TypeRestoreFails,
     TypeFinish, TypeFinishFails, TypeReactivate, TypeReactivateFails,
     TypeLeave DEF Step
<1>4. ASSUME NEW c \in Commands, Crash(c) PROVE TypeInv'
  BY <1>4, TypeLeave
<1>5. CASE ServiceRestarts
  BY <1>5, TypeServiceRestarts
<1> QED
  BY <1>1, <1>2, <1>3, <1>4, <1>5 DEF Next

LEMMA TypeAlways == Spec => []TypeInv
BY TypeInit, TypeNext, PTL DEF Spec

(* The deployment's files, the lock, the running services and every        *)
(* command's prompt, phase and transaction always have their types, for    *)
(* any number of commands and any bounds.                                  *)
THEOREM TypeCorrect == Spec => []TypeOK
<1>1. TypeInv => TypeOK
  BY DEF TypeInv
<1> QED
  BY <1>1, TypeAlways, PTL

(* No command publishes from a prompt that was opened on a configuration   *)
(* another command has replaced since (commit_config_change).              *)
THEOREM StalePromptRefused == Spec => StalePromptNeverPublishes
<1>1. TypeInv /\ [Next]_vars =>
        [\A c \in Commands :
           lock = Free /\ lock' = c /\ prompt[c] # Absent
             => prompt[c].expected = config]_vars
  <2> SUFFICES ASSUME TypeInv, Next, NEW c \in Commands,
                      lock = Free, lock' = c, prompt[c] # Absent
               PROVE  prompt[c].expected = config
    BY DEF vars
  <2> USE ConstantsAssumption
  <2>1. \A d \in Commands : pc[d] \notin Working
    BY DEF TypeInv, Shape
  <2>2. PICK d \in Commands : Begin(d) \/ Step(d) \/ Crash(d)
    BY DEF Next, ServiceRestarts
  <2>3. ~Step(d)
    BY <2>1 DEF Step, WriteArtifact, Prune, UndoArtifact, RestoreArtifact,
       WriteActive, WriteConfig, WriteFails, PruneFails, UndoActive,
       RestoreActive, RestoreConfig, RestoreFails, Finish, FinishFails,
       Reactivate, ReactivateFails, Release, Working
  <2>4. ~Crash(d) /\ ~OpenWizard(d) /\ ~CloseWizard(d)
    BY DEF Crash, OpenWizard, CloseWizard
  <2>5. Begin(d) => d = c
    BY <2>4 DEF Begin, ConfirmWizard, SwitchTemplate, Reapply, Regenerate,
       RotateSecret, Restart, StartApply, Enter
  <2>6. pc[c] # "idle"
    BY DEF TypeInv, Shape
  <2>7. ConfirmWizard(c)
    BY <2>2, <2>3, <2>4, <2>5, <2>6 DEF Begin, SwitchTemplate, Reapply,
       Regenerate, RotateSecret, Restart
  <2> QED
    BY <2>7 DEF ConfirmWizard
<1> QED
  BY <1>1, TypeAlways, PTL DEF Spec, StalePromptNeverPublishes

-----------------------------------------------------------------------------
(***************************************************************************)
(* A rotated credential never comes back.  The property is not inductive   *)
(* as it stands: what a command is about to publish, what it would restore *)
(* and what an open prompt would ask for must be new enough too.           *)
(***************************************************************************)
Publishing == {"artifacts", "active", "config"}

Reversible == Working \ {"done", "failed", "unrecovered"}

SecretInv ==
  /\ NoSecretResurrection
  /\ config = Absent => committed = 0
  /\ committed <= issued
  /\ config # Absent => config.secret <= issued
  /\ \A c \in Commands :
       /\ pc[c] = "editing" =>
            prompt[c].target.secret =
              IF prompt[c].expected = Absent THEN 0
                                             ELSE prompt[c].expected.secret
       /\ pc[c] \in Publishing => /\ committed <= job[c].target.secret
                                  /\ job[c].target.secret <= issued
       /\ pc[c] \in Reversible /\ job[c].op # "initialize" =>
            /\ committed <= job[c].snap.config.secret
            /\ job[c].snap.config.secret <= issued

LEMMA SecretInit == Init => SecretInv
<1> SUFFICES ASSUME Init PROVE SecretInv
  OBVIOUS
<1> USE ConstantsAssumption
<1>1. committed = 0 /\ issued = 0 /\ (config # Absent => config.secret = 0)
  BY DEF Init
<1>2. sbctl # Down => sbctl.secret = 0
  BY <1>1 DEF Init
<1> QED
  BY <1>1, <1>2 DEF Init, SecretInv, NoSecretResurrection, Publishing,
     Reversible, Working

(* A command takes the lock with a credential no older than the committed. *)
LEMMA SecretEnter ==
  ASSUME TypeInv, SecretInv, TypeInv', NEW c \in Commands, lock = Free,
         NEW op \in Ops, NEW target \in Configs, NEW names, NEW stale,
         NEW sync, NEW where,
         Enter(c, op, target, names, stale, sync, where),
         issued' \in Nat, issued <= issued', target.secret <= issued',
         committed <= target.secret, op = "initialize" \/ config # Absent
  PROVE  SecretInv'
<1> USE ConstantsAssumption
<1>1. NoSecretResurrection'
  BY DEF SecretInv, NoSecretResurrection, Enter, disk, service
<1>2. /\ (config = Absent => committed = 0)'
      /\ (committed <= issued)'
      /\ (config # Absent => config.secret <= issued)'
  BY DEF SecretInv, Enter, disk, TypeInv, TypeOK, Configs
<1>3. ASSUME NEW d \in Commands, pc'[d] = "editing"
      PROVE  prompt'[d].target.secret =
               IF prompt'[d].expected = Absent THEN 0
                                               ELSE prompt'[d].expected.secret
  BY <1>3 DEF SecretInv, Enter, Goto, TypeInv, TypeOK, Shape, Working
<1>4. ASSUME NEW d \in Commands, pc'[d] \in Working
      PROVE  /\ committed' <= job'[d].target.secret
             /\ job'[d].target.secret <= issued'
             /\ job'[d].op # "initialize" =>
                  /\ committed' <= job'[d].snap.config.secret
                  /\ job'[d].snap.config.secret <= issued'
  <2>1. d = c
    BY <1>4 DEF Enter, Goto, TypeInv, TypeOK, Shape
  <2>2. /\ job'[d].target = target /\ job'[d].op = op
        /\ job'[d].snap.config = config
    BY <2>1 DEF Enter, TypeInv, TypeOK, Image
  <2> QED
    BY <2>2 DEF Enter, SecretInv, NoSecretResurrection, TypeInv, TypeOK, Configs
<1> QED
  BY <1>1, <1>2, <1>3, <1>4 DEF SecretInv, Publishing, Reversible, Working

(* A working command writes its target or its snapshot, and the services   *)
(* load what is on disk.                                                   *)
LEMMA SecretStep ==
  ASSUME TypeInv, SecretInv, TypeInv', NEW c \in Commands, pc[c] \in Working,
         JobStep(c), NEW where \in Working, Goto(c, where),
         where \in Publishing => pc[c] \in Publishing,
         where \in Reversible => pc[c] \in Reversible,
         UNCHANGED <<prompt, issued, committed>>,
         \/ config' = config
         \/ config' = job[c].target /\ pc[c] \in Publishing
         \/ /\ config' = job[c].snap.config
            /\ pc[c] \in Reversible /\ job[c].op # "initialize",
         sbctl' \in {sbctl, Down} \/ (sbctl' = config /\ config # Absent)
  PROVE  SecretInv'
<1> USE ConstantsAssumption
<1>1. config' # Absent => committed <= config'.secret /\ config'.secret <= issued
  BY DEF SecretInv, NoSecretResurrection
<1>2. config # Absent => config' # Absent
  BY AtWork DEF Jobs, InitializePhases, Publishing, Reversible, Working
<1>3. NoSecretResurrection'
  BY <1>1 DEF SecretInv, NoSecretResurrection
<1>4. \A d \in Commands \ {c} : pc'[d] = pc[d] /\ job'[d] = job[d]
  BY DEF Goto, JobStep, TypeInv, TypeOK
<1>5. pc'[c] = where
  BY DEF Goto, TypeInv, TypeOK
<1>6. ASSUME NEW d \in Commands
      PROVE  SecretInv!5!(d)'
  <2>1. CASE d = c
    <3>1. pc'[d] # "editing"
      BY <2>1, <1>5 DEF Working
    <3> QED
      BY <2>1, <1>5, <3>1 DEF SecretInv, JobStep
  <2>2. CASE d # c
    BY <2>2, <1>4 DEF SecretInv
  <2> QED
    BY <2>1, <2>2
<1> QED
  BY <1>1, <1>2, <1>3, <1>6 DEF SecretInv

LEMMA SecretBegin ==
  ASSUME TypeInv, SecretInv, TypeInv', NEW c \in Commands, Begin(c)
  PROVE  SecretInv'
<1> USE ConstantsAssumption
<1>1. CASE OpenWizard(c) \/ CloseWizard(c)
  <2>1. UNCHANGED <<disk, service, job, issued, committed>>
    BY <1>1 DEF OpenWizard, CloseWizard
  <2>2. ASSUME NEW d \in Commands PROVE SecretInv!5!(d)'
    <3>1. CASE OpenWizard(c)
      <4>1. PICK t \in [node : Nodes, template : Templates,
                        secret : {IF config = Absent THEN 0 ELSE config.secret}] :
              prompt' = [prompt EXCEPT ![c] = [expected |-> config, target |-> t]]
        BY <3>1 DEF OpenWizard
      <4>2. pc' = [pc EXCEPT ![c] = "editing"]
        BY <3>1 DEF OpenWizard, Goto
      <4> QED
        BY <2>1, <4>1, <4>2 DEF SecretInv, TypeInv, TypeOK, Publishing,
           Reversible, Working, disk, service
    <3>2. CASE CloseWizard(c)
      BY <3>2, <2>1 DEF SecretInv, CloseWizard, Goto, TypeInv, TypeOK,
         Publishing, Reversible, Working, disk, service
    <3> QED
      BY <1>1, <3>1, <3>2
  <2> QED
    BY <2>1, <2>2 DEF SecretInv, NoSecretResurrection, disk, service
<1>2. ASSUME NEW op \in Ops, NEW target \in Configs, config # Absent,
             target.secret = config.secret, StartApply(c, op, target)
      PROVE  SecretInv'
  <2>1. \E names, stale, sync, where :
          Enter(c, op, target, names, stale, sync, where)
    BY <1>2 DEF StartApply
  <2>2. lock = Free /\ issued' = issued
    BY <1>2 DEF StartApply, Enter
  <2>3. committed <= target.secret /\ target.secret <= issued
    BY <1>2 DEF SecretInv, NoSecretResurrection
  <2> QED
    BY <1>2, <2>1, <2>2, <2>3, SecretEnter DEF TypeInv, TypeOK
<1>3. CASE ConfirmWizard(c)
  <2>1. /\ prompt[c].target \in Configs /\ prompt[c].expected = config
        /\ prompt[c].target.secret = IF config = Absent THEN 0 ELSE config.secret
    BY <1>3 DEF ConfirmWizard, TypeInv, Shape, Prompts, SecretInv
  <2>2. CASE config # Absent
    <3>1. \E op \in Ops : StartApply(c, op, prompt[c].target)
      BY <1>3, <2>2 DEF ConfirmWizard, Ops
    <3> QED
      BY <2>1, <2>2, <3>1, <1>2
  <2>3. CASE config = Absent
    <3>1. /\ Enter(c, "initialize", prompt[c].target,
                   NamesOf[prompt[c].target.node], {}, FALSE, "artifacts")
          /\ issued' = issued
      BY <1>3, <2>3 DEF ConfirmWizard
    <3>2. committed = 0 /\ lock = Free /\ prompt[c].target.secret = 0
      BY <2>1, <2>3, <3>1 DEF SecretInv, Enter
    <3>3. /\ issued' \in Nat /\ issued <= issued'
          /\ committed <= prompt[c].target.secret
          /\ prompt[c].target.secret <= issued'
      BY <3>1, <3>2 DEF TypeInv, TypeOK
    <3>4. \E names, stale, sync, where :
            Enter(c, "initialize", prompt[c].target, names, stale, sync, where)
      BY <3>1
    <3>5. "initialize" \in Ops
      BY DEF Ops
    <3> QED
      BY <2>1, <3>2, <3>3, <3>4, <3>5, SecretEnter
  <2> QED
    BY <2>2, <2>3
<1>4. CASE SwitchTemplate(c)
  <2>1. PICK t \in Templates : StartApply(c, "template",
                                          [config EXCEPT !.template = t])
    BY <1>4 DEF SwitchTemplate
  <2>2. [config EXCEPT !.template = t] \in Configs /\ config # Absent
        /\ [config EXCEPT !.template = t].secret = config.secret
    BY <1>4 DEF SwitchTemplate, TypeInv, TypeOK, Configs
  <2> QED
    BY <1>2, <2>1, <2>2 DEF Ops
<1>5. CASE Reapply(c)
  BY <1>2, <1>5 DEF Reapply, Ops, TypeInv, TypeOK
<1>6. CASE Regenerate(c) \/ Restart(c)
  <2>1. config # Absent /\ lock = Free /\ issued' = issued
    BY <1>6 DEF Regenerate, Restart, Enter
  <2>2. config \in Configs /\ issued \in Nat
    BY <2>1 DEF TypeInv, TypeOK
  <2>3. committed <= config.secret /\ config.secret <= issued
    BY <2>1 DEF SecretInv, NoSecretResurrection
  <2>4. \E op \in Ops :
          \E names, stale, sync, where :
            Enter(c, op, config, names, stale, sync, where)
    <3>1. CASE Regenerate(c)
      <4>1. Enter(c, "regenerate", config, NamesOf[config.node],
                  StaleNames(NamesOf[config.node], FALSE), TRUE, "artifacts")
        BY <3>1 DEF Regenerate
      <4> QED
        BY <4>1 DEF Ops
    <3>2. CASE Restart(c)
      <4>1. Enter(c, "restart", config, {}, {}, FALSE, "finish")
        BY <3>2 DEF Restart
      <4> QED
        BY <4>1 DEF Ops
    <3> QED
      BY <1>6, <3>1, <3>2
  <2> QED
    BY <2>1, <2>2, <2>3, <2>4, SecretEnter
<1>7. CASE RotateSecret(c)
  <2> DEFINE new == [config EXCEPT !.secret = issued + 1]
  <2>1. /\ Enter(c, "credential", new, {}, {}, FALSE, "config")
        /\ issued' = issued + 1 /\ lock = Free
        /\ config \in Configs
    BY <1>7 DEF RotateSecret, Enter, TypeInv, TypeOK
  <2>2. new \in Configs /\ new.secret = issued + 1
    BY <2>1 DEF TypeInv, TypeOK, Configs
  <2>3. /\ committed <= issued + 1
        /\ issued' \in Nat /\ issued <= issued' /\ issued + 1 <= issued'
    BY <2>1 DEF SecretInv, TypeInv, TypeOK
  <2>4. config # Absent
    BY <1>7 DEF RotateSecret
  <2> HIDE DEF new
  <2> QED
    BY <2>1, <2>2, <2>3, <2>4, SecretEnter DEF Ops
<1> QED
  BY <1>1, <1>3, <1>4, <1>5, <1>6, <1>7 DEF Begin

(* The prompts, the lock's other contenders and the services are not       *)
(* touched by what only reads or writes files.                             *)
LEMMA SecretWorks ==
  ASSUME TypeInv, SecretInv, TypeInv', NEW c \in Commands, Step(c), ~Release(c),
         ~Finish(c)
  PROVE  SecretInv'
<1> USE DEF TypeInv, TypeOK, disk, service, Publishing, Reversible, Working
<1>1. CASE \E f \in Files : WriteArtifact(c, f)
  BY <1>1, TypeWriteArtifact, Stays, SecretStep DEF WriteArtifact, AfterArtifacts
<1>2. CASE \E f \in Files : Prune(c, f)
  BY <1>2, TypePrune, Stays, SecretStep DEF Prune
<1>3. CASE \E f \in Files : UndoArtifact(c, f)
  BY ZenonT(40), <1>3, TypeUndoArtifact, Stays, SecretStep DEF UndoArtifact
<1>4. CASE \E f \in Files : RestoreArtifact(c, f)
  BY ZenonT(40), <1>4, TypeRestoreArtifact, Stays, SecretStep DEF RestoreArtifact
<1>5. CASE WriteActive(c)
  BY <1>5, TypeWriteActive, SecretStep
     DEF WriteActive, Phase, AfterActive, PruneOrFinish
<1>6. CASE WriteConfig(c)
  BY <1>6, TypeWriteConfig, SecretStep
     DEF WriteConfig, Phase, AfterConfig, PruneOrFinish
<1>7. CASE WriteFails(c)
  BY <1>7, TypeWriteFails, SecretStep DEF WriteFails
<1>8. CASE PruneFails(c)
  BY <1>8, TypePruneFails, SecretStep DEF PruneFails
<1>9. CASE UndoActive(c)
  BY <1>9, TypeUndoActive, SecretStep DEF UndoActive
<1>10. CASE RestoreActive(c)
  BY <1>10, TypeRestoreActive, SecretStep DEF RestoreActive
<1>11. CASE RestoreConfig(c)
  BY <1>11, TypeRestoreConfig, AtWork, SecretStep
     DEF RestoreConfig, InitializePhases
<1>12. CASE RestoreFails(c)
  BY <1>12, TypeRestoreFails, SecretStep DEF RestoreFails
<1>13. CASE FinishFails(c)
  <2>1. config # Absent
    BY <1>13, AtWork, ConstantsAssumption DEF FinishFails, InitializePhases
  <2>2. sbctl' \in {sbctl, Down} \/ sbctl' = config
    BY <1>13 DEF FinishFails, ServicesFail
  <2>3. PICK where \in Working : Goto(c, where) /\ pc[c] = "finish"
    BY <1>13 DEF FinishFails
  <2> QED
    BY <1>13, <2>1, <2>2, <2>3, TypeFinishFails, SecretStep DEF FinishFails
<1>14. CASE Reactivate(c)
  <2>1. config # Absent
    BY <1>14, AtWork, ConstantsAssumption DEF Reactivate, InitializePhases
  <2>2. sbctl' \in {sbctl, Down} \/ sbctl' = config
    BY <1>14 DEF Reactivate, ServicesLoad
  <2> QED
    BY <1>14, <2>1, <2>2, TypeReactivate, SecretStep DEF Reactivate
<1>15. CASE ReactivateFails(c)
  <2>1. config # Absent
    BY <1>15, AtWork, ConstantsAssumption DEF ReactivateFails, InitializePhases
  <2>2. sbctl' \in {sbctl, Down} \/ sbctl' = config
    BY <1>15 DEF ReactivateFails, ServicesFail
  <2> QED
    BY <1>15, <2>1, <2>2, TypeReactivateFails, SecretStep DEF ReactivateFails
<1> QED
  BY <1>1, <1>2, <1>3, <1>4, <1>5, <1>6, <1>7, <1>8, <1>9, <1>10, <1>11, <1>12,
     <1>13, <1>14, <1>15 DEF Step

LEMMA SecretFinish ==
  ASSUME TypeInv, SecretInv, TypeInv', NEW c \in Commands, Finish(c)
  PROVE  SecretInv'
<1> USE DEF TypeInv, TypeOK, Publishing, Reversible, Working
<1>1. config \in Configs /\ config # Absent /\ pc[c] = "finish"
  BY AtWork, ConstantsAssumption DEF Finish, InitializePhases
<1>2. sbctl' = sbctl \/ sbctl' = config
  BY DEF Finish, ServicesLoad, service
<1>3. CASE job[c].op # "credential"
  BY <1>1, <1>2, <1>3, TypeFinish, SecretStep DEF Finish, disk
<1>4. CASE job[c].op = "credential"
  <2>1. committed' = config.secret /\ sbctl' = config /\ config' = config
    BY <1>4 DEF Finish, ServicesLoad, Restarts, disk
  <2>2. NoSecretResurrection'
    BY <1>1, <2>1 DEF NoSecretResurrection, Configs
  <2>3. /\ (config = Absent => committed = 0)'
        /\ (committed <= issued)'
        /\ (config # Absent => config.secret <= issued)'
    BY <1>1, <2>1 DEF SecretInv, Finish
  <2>4. ASSUME NEW d \in Commands PROVE SecretInv!5!(d)'
    <3>1. pc'[d] \notin Working \/ (d = c /\ pc'[d] = "done")
      BY <1>1, AtWork DEF Finish, Goto
    <3>2. pc'[d] = "editing" => pc[d] = "editing"
      BY DEF Finish, Goto
    <3>3. UNCHANGED <<prompt, job>>
      BY DEF Finish
    <3> QED
      BY <3>1, <3>2, <3>3 DEF SecretInv
  <2> QED
    BY <2>2, <2>3, <2>4 DEF SecretInv
<1> QED
  BY <1>3, <1>4

LEMMA SecretLeave ==
  ASSUME TypeInv, SecretInv, NEW c \in Commands, Release(c) \/ Crash(c)
  PROVE  SecretInv'
<1> USE DEF TypeInv, TypeOK, Publishing, Reversible, Working
<1>1. UNCHANGED <<disk, service, issued, committed>>
  BY DEF Release, Crash
<1>2. ASSUME NEW d \in Commands PROVE SecretInv!5!(d)'
  BY DEF Release, Crash, Goto, SecretInv
<1> QED
  BY <1>1, <1>2 DEF SecretInv, NoSecretResurrection, disk, service

LEMMA SecretNext == TypeInv /\ TypeInv' /\ SecretInv /\ [Next]_vars => SecretInv'
<1> SUFFICES ASSUME TypeInv, TypeInv', SecretInv, [Next]_vars PROVE SecretInv'
  OBVIOUS
<1>1. CASE UNCHANGED vars
  BY <1>1 DEF SecretInv, NoSecretResurrection, vars
<1>2. ASSUME NEW c \in Commands, Begin(c) PROVE SecretInv'
  BY <1>2, SecretBegin
<1>3. ASSUME NEW c \in Commands, Step(c) PROVE SecretInv'
  BY <1>3, SecretWorks, SecretFinish, SecretLeave
<1>4. ASSUME NEW c \in Commands, Crash(c) PROVE SecretInv'
  BY <1>4, SecretLeave
<1>5. CASE ServiceRestarts
  BY <1>5 DEF ServiceRestarts, SecretInv, NoSecretResurrection, disk
<1> QED
  BY <1>1, <1>2, <1>3, <1>4, <1>5 DEF Next

(* Once `credential rotate` has reported success, no stale prompt, no      *)
(* rollback, no crash of a command and no restart of a service brings an   *)
(* older subscription credential back, in the configuration or in the      *)
(* running service.                                                        *)
THEOREM RotatedSecretStaysRotated == Spec => []NoSecretResurrection
<1>1. SecretInv => NoSecretResurrection
  BY DEF SecretInv
<1> QED
  BY <1>1, TypeAlways, SecretInit, SecretNext, PTL DEF Spec

-----------------------------------------------------------------------------
(***************************************************************************)
(* A failed command leaves every file as it found it.  Inductively: what a *)
(* command has not captured is untouched, what it has captured and not yet *)
(* put back is still in its list, and each phase has changed only what the *)
(* rollback it can reach puts back.                                        *)
(***************************************************************************)
Kept(c, touched) ==
  \A f \in Files \ touched : artifact[f] = job[c].snap.artifact[f]

(* While a command publishes.                                              *)
Undoable(c) ==
  /\ pc[c] \in Publishing =>
       /\ config = job[c].snap.config
       /\ Kept(c, job[c].names)
       /\ ~job[c].sync \/ pc[c] # "config" => active = job[c].snap.active
  /\ pc[c] \in {"prune", "finish"} /\ job[c].op # "regenerate" =>
       /\ Kept(c, job[c].names \cup job[c].stale)
       /\ ~job[c].sync => active = job[c].snap.active
       /\ job[c].op = "restart" => config = job[c].snap.config
  /\ pc[c] = "prune" => job[c].todo \subseteq job[c].stale
  /\ pc[c] = "artifacts" => job[c].todo \subseteq job[c].names
  /\ pc[c] = "active" => job[c].sync
  /\ pc[c] \in Publishing \cup {"prune"} => job[c].op # "restart"

(* While it rolls back.                                                    *)
Undone(c) ==
  /\ pc[c] \in {"undoArtifacts", "undoActive"} => config = job[c].snap.config
  /\ pc[c] = "undoArtifacts" /\ ~job[c].sync => active = job[c].snap.active
  /\ ~job[c].fault =>
       /\ pc[c] \in {"undoArtifacts", "restoreArtifacts"} =>
            Kept(c, job[c].todo)
       /\ pc[c] \in {"undoActive", "restoreActive"} => Kept(c, {})
       /\ pc[c] = "restoreConfig" =>
            Kept(c, {}) /\ active = job[c].snap.active
       /\ pc[c] \in {"reactivate", "failed"} =>
            Kept(c, {}) /\ active = job[c].snap.active
                        /\ config = job[c].snap.config

(* A command that replaces no artifact has captured none.                  *)
Small(c) ==
  job[c].op \in {"credential", "restart"} =>
    job[c].names = {} /\ job[c].stale = {} /\ ~job[c].sync

RestoreInv ==
  \A c \in Commands :
    pc[c] \in Working /\ job[c].op # "initialize" =>
      Undoable(c) /\ Undone(c) /\ Small(c)

LEMMA RestoreImplies == TypeInv /\ RestoreInv => FailureRestores
<1> SUFFICES ASSUME TypeInv, RestoreInv, NEW c \in Commands,
                    pc[c] = "failed", ~job[c].fault
             PROVE  Image = job[c].snap
  BY DEF FailureRestores
<1>1. pc[c] \in Working /\ job[c].op # "initialize" /\ job[c] \in Jobs
  BY AtWork DEF Working, InitializePhases
<1>2. Kept(c, {}) /\ active = job[c].snap.active /\ config = job[c].snap.config
  BY <1>1 DEF RestoreInv, Undone
<1>3. artifact = job[c].snap.artifact
  BY <1>1, <1>2 DEF Kept, TypeInv, TypeOK, Jobs, Images
<1> QED
  BY <1>1, <1>2, <1>3 DEF Image, Jobs, Images

LEMMA RestoreInit == Init => RestoreInv
BY DEF Init, RestoreInv, Working

(* Steps that leave the holder of the lock and its files alone.            *)
LEMMA RestoreElsewhere ==
  ASSUME TypeInv, RestoreInv, UNCHANGED disk,
         \A d \in Commands : pc'[d] \in Working =>
           pc[d] = pc'[d] /\ job'[d] = job[d]
  PROVE  RestoreInv'
BY DEF RestoreInv, Undoable, Undone, Small, Kept, disk

LEMMA RestoreEnter ==
  ASSUME TypeInv, RestoreInv, NEW c \in Commands, lock = Free,
         NEW op \in Ops, NEW target, NEW names \in SUBSET Files, NEW stale,
         NEW sync \in BOOLEAN,
         NEW where \in {"artifacts", "config", "finish"},
         Enter(c, op, target, names, stale, sync, where),
         op \in {"credential", "restart"} =>
           names = {} /\ stale = {} /\ sync = FALSE,
         op = "restart" => where = "finish"
  PROVE  RestoreInv'
<1> USE ConstantsAssumption
<1> SUFFICES ASSUME NEW d \in Commands, pc'[d] \in Working
             PROVE  (Undoable(d) /\ Undone(d) /\ Small(d))'
  BY DEF RestoreInv
<1>1. d = c
  BY DEF Enter, Goto, TypeInv, TypeOK, Shape
<1>2. /\ pc'[c] = where
      /\ job'[c] = [op |-> op, target |-> target, snap |-> Image,
                    names |-> names, stale |-> stale, todo |-> names,
                    sync |-> sync, fault |-> FALSE]
      /\ UNCHANGED <<config, artifact, active>>
  BY DEF Enter, Goto, TypeInv, TypeOK, disk
<1>3. Undoable(c)'
  BY <1>2 DEF Undoable, Kept, Image, Publishing
<1>4. Undone(c)' /\ Small(c)'
  BY <1>2 DEF Undone, Small, Kept, Image
<1> QED
  BY <1>1, <1>3, <1>4

(* Only the holder of the lock is working, before and after its step.      *)
LEMMA RestoreOwn ==
  ASSUME TypeInv, RestoreInv, NEW c \in Commands, pc[c] \in Working,
         JobStep(c), NEW where \in Working, Goto(c, where),
         job[c].op # "initialize" =>
           (Undoable(c) /\ Undone(c) /\ Small(c))'
  PROVE  RestoreInv'
<1> SUFFICES ASSUME NEW d \in Commands, pc'[d] \in Working,
                    job'[d].op # "initialize"
             PROVE  (Undoable(d) /\ Undone(d) /\ Small(d))'
  BY DEF RestoreInv
<1>1. d = c
  BY AtWork DEF Goto, TypeInv, TypeOK
<1> QED
  BY <1>1 DEF JobStep

LEMMA RestoreWriteArtifact ==
  ASSUME TypeInv, RestoreInv, NEW c \in Commands, NEW f \in Files,
         WriteArtifact(c, f)
  PROVE  RestoreInv'
<1>1. pc[c] \in Working /\ pc[c] = "artifacts" /\ JobStep(c) /\ job[c] \in Jobs
  BY AtWork, TypeWriteArtifact DEF WriteArtifact, Working
<1>2. PICK where \in {"artifacts", AfterArtifacts(c)} : Goto(c, where)
  BY <1>1, Stays DEF WriteArtifact, TypeInv
<1>3. where \in {"artifacts", "active", "config"}
  BY <1>2 DEF AfterArtifacts
<1>4. ASSUME job[c].op # "initialize"
      PROVE  (Undoable(c) /\ Undone(c) /\ Small(c))'
  <2>1. Undoable(c) /\ Undone(c) /\ Small(c)
    BY <1>1, <1>4 DEF RestoreInv
  <2>2. f \in job[c].names /\ Kept(c, job[c].names)
    BY <1>1, <2>1 DEF Undoable, Publishing, WriteArtifact
  <2>3. Kept(c, job[c].names)'
    <3>1. SetFile(f, Content(job[c].target, f)) /\ job[c].names \in SUBSET Files
      BY <1>1 DEF WriteArtifact, Jobs
    <3>2. Kept(c, job[c].names)' <=>
            \A g \in Files \ job[c].names :
              artifact'[g] = job[c].snap.artifact[g]
      BY <1>1 DEF Kept, JobStep
    <3> QED
      BY <2>2, <3>1, <3>2 DEF SetFile, Kept, TypeInv, TypeOK
  <2>4. /\ pc'[c] = where /\ UNCHANGED <<config, active>>
        /\ job'[c].sync = job[c].sync /\ job'[c].todo \subseteq job[c].todo
        /\ job'[c].snap = job[c].snap /\ job'[c].names = job[c].names
        /\ job'[c].op = job[c].op /\ job'[c].stale = job[c].stale
    BY <1>1, <1>2 DEF WriteArtifact, Goto, TypeInv, TypeOK, Jobs, LeftAfter,
       JobStep
  <2>5. pc'[c] = "active" => job[c].sync
    BY <1>1, <1>2, <2>4 DEF AfterArtifacts
  <2>6. Undoable(c)'
    BY <1>1, <1>3, <2>1, <2>3, <2>4, <2>5 DEF Undoable, Kept, Publishing
  <2> QED
    BY <1>3, <2>1, <2>4, <2>6 DEF Undone, Small
<1> QED
  BY <1>1, <1>2, <1>3, <1>4, RestoreOwn DEF Working

LEMMA RestoreWriteActive ==
  ASSUME TypeInv, RestoreInv, NEW c \in Commands, WriteActive(c)
  PROVE  RestoreInv'
<1>1. pc[c] \in Working /\ pc[c] = "active" /\ JobStep(c) /\ job[c] \in Jobs
  BY AtWork, TypeWriteActive DEF WriteActive, Working
<1>2. /\ AfterActive(c) \in {"prune", "finish", "config"}
      /\ job[c].op # "regenerate" => AfterActive(c) = "config"
  BY DEF AfterActive, PruneOrFinish
<1>3. Goto(c, AfterActive(c))
  BY DEF WriteActive, Phase
<1>4. ASSUME job[c].op # "initialize"
      PROVE  (Undoable(c) /\ Undone(c) /\ Small(c))'
  <2>1. Undoable(c) /\ Undone(c) /\ Small(c)
    BY <1>1, <1>4 DEF RestoreInv
  <2>2. /\ pc'[c] = AfterActive(c) /\ UNCHANGED <<config, artifact>>
        /\ job'[c].sync = job[c].sync
        /\ pc'[c] = "prune" => job'[c].todo = job[c].stale
        /\ job'[c].snap = job[c].snap /\ job'[c].names = job[c].names
        /\ job'[c].op = job[c].op /\ job'[c].stale = job[c].stale
    BY <1>1, <1>3 DEF WriteActive, Phase, Goto, TypeInv, TypeOK, Jobs, JobStep
  <2>3. Undoable(c)'
    BY <1>1, <1>2, <2>1, <2>2 DEF Undoable, Kept, Publishing
  <2> QED
    BY <1>2, <2>1, <2>2, <2>3 DEF Undone, Small
<1> QED
  BY <1>1, <1>2, <1>3, <1>4, RestoreOwn DEF Working

LEMMA RestoreWriteConfig ==
  ASSUME TypeInv, RestoreInv, NEW c \in Commands, WriteConfig(c)
  PROVE  RestoreInv'
<1>1. pc[c] \in Working /\ pc[c] = "config" /\ JobStep(c) /\ job[c] \in Jobs
  BY AtWork, TypeWriteConfig DEF WriteConfig, Working
<1>2. /\ AfterConfig(c) \in {"prune", "finish", "done"}
      /\ Goto(c, AfterConfig(c))
  BY DEF AfterConfig, PruneOrFinish, WriteConfig, Phase
<1>3. ASSUME job[c].op # "initialize"
      PROVE  (Undoable(c) /\ Undone(c) /\ Small(c))'
  <2>1. Undoable(c) /\ Undone(c) /\ Small(c)
    BY <1>1, <1>3 DEF RestoreInv
  <2>2. /\ pc'[c] = AfterConfig(c) /\ UNCHANGED <<active, artifact>>
        /\ job'[c].sync = job[c].sync
        /\ pc'[c] = "prune" => job'[c].todo = job[c].stale
        /\ job'[c].snap = job[c].snap /\ job'[c].names = job[c].names
        /\ job'[c].op = job[c].op /\ job'[c].stale = job[c].stale
    BY <1>1, <1>2 DEF WriteConfig, Phase, Goto, TypeInv, TypeOK, Jobs, JobStep
  <2>3. Undoable(c)'
    BY <1>1, <1>2, <2>1, <2>2
       DEF Undoable, Kept, Publishing
  <2> QED
    BY <1>2, <2>1, <2>2, <2>3 DEF Undone, Small
<1> QED
  BY <1>1, <1>2, <1>3, RestoreOwn DEF Working

LEMMA RestorePrune ==
  ASSUME TypeInv, RestoreInv, NEW c \in Commands, NEW f \in Files, Prune(c, f)
  PROVE  RestoreInv'
<1>1. pc[c] \in Working /\ pc[c] = "prune" /\ JobStep(c) /\ job[c] \in Jobs
  BY AtWork, TypePrune DEF Prune, Working
<1>2. PICK where \in {"prune", "finish"} : Goto(c, where)
  BY <1>1, Stays DEF Prune, TypeInv
<1>3. ASSUME job[c].op # "initialize"
      PROVE  (Undoable(c) /\ Undone(c) /\ Small(c))'
  <2>1. Undoable(c) /\ Undone(c) /\ Small(c)
    BY <1>1, <1>3 DEF RestoreInv
  <2>2. /\ pc'[c] = where /\ UNCHANGED <<config, active>>
        /\ job'[c].sync = job[c].sync /\ job'[c].todo \subseteq job[c].todo
        /\ job'[c].snap = job[c].snap /\ job'[c].names = job[c].names
        /\ job'[c].op = job[c].op /\ job'[c].stale = job[c].stale
    BY <1>1, <1>2 DEF Prune, Goto, TypeInv, TypeOK, Jobs, LeftAfter, JobStep
  <2>3. job[c].op # "regenerate" => Kept(c, job[c].names \cup job[c].stale)'
    <3>1. f \in job[c].names \cup job[c].stale
      BY <1>1, <2>1 DEF Undoable, Prune
    <3>2. job[c].names \cup job[c].stale \in SUBSET Files
      BY <1>1 DEF Jobs
    <3>3. SetFile(f, Absent)
      BY DEF Prune
    <3>4. ASSUME job[c].op # "regenerate"
          PROVE  Kept(c, job[c].names \cup job[c].stale)
      BY <1>1, <2>1, <3>4 DEF Undoable
    <3> QED
      BY <1>1, <3>1, <3>3, <3>4 DEF SetFile, Kept, JobStep, TypeInv, TypeOK
  <2>4. Undoable(c)'
    BY <1>1, <2>1, <2>2, <2>3 DEF Undoable, Kept, Publishing
  <2> QED
    BY <2>1, <2>2, <2>4 DEF Undone, Small
<1> QED
  BY <1>1, <1>2, <1>3, RestoreOwn DEF Working

LEMMA RestorePruneFails ==
  ASSUME TypeInv, RestoreInv, NEW c \in Commands, PruneFails(c)
  PROVE  RestoreInv'
<1>1. pc[c] \in Working /\ pc[c] = "prune" /\ JobStep(c) /\ job[c] \in Jobs
  BY AtWork, TypePruneFails DEF PruneFails, Working
<1>2. Goto(c, "finish")
  BY DEF PruneFails
<1>3. ASSUME job[c].op # "initialize"
      PROVE  (Undoable(c) /\ Undone(c) /\ Small(c))'
  <2>1. Undoable(c) /\ Undone(c) /\ Small(c)
    BY <1>1, <1>3 DEF RestoreInv
  <2>2. /\ pc'[c] = "finish" /\ UNCHANGED <<config, active, artifact>>
        /\ job'[c].sync = job[c].sync
        /\ job'[c].snap = job[c].snap /\ job'[c].names = job[c].names
        /\ job'[c].op = job[c].op /\ job'[c].stale = job[c].stale
    BY <1>1, <1>2 DEF PruneFails, Goto, TypeInv, TypeOK, Jobs, JobStep, disk
  <2> QED
    BY <1>1, <2>1, <2>2 DEF Undoable, Undone, Small, Kept, Publishing
<1> QED
  BY <1>1, <1>2, <1>3, RestoreOwn DEF Working

LEMMA RestoreWriteFails ==
  ASSUME TypeInv, RestoreInv, NEW c \in Commands, WriteFails(c)
  PROVE  RestoreInv'
<1>1. /\ pc[c] \in Working /\ pc[c] \in Publishing /\ JobStep(c)
      /\ job[c] \in Jobs
  BY AtWork, TypeWriteFails DEF WriteFails, Working, Publishing
<1>2. PICK where \in {"unrecovered", "restoreConfig", "undoArtifacts"} :
        /\ Goto(c, where)
        /\ job[c].op # "initialize" =>
             where = IF job[c].op = "credential" THEN "restoreConfig"
                                                 ELSE "undoArtifacts"
  BY DEF WriteFails
<1>3. ASSUME job[c].op # "initialize"
      PROVE  (Undoable(c) /\ Undone(c) /\ Small(c))'
  <2>1. Undoable(c) /\ Undone(c) /\ Small(c)
    BY <1>1, <1>3 DEF RestoreInv
  <2>2. /\ pc'[c] = where /\ UNCHANGED <<config, active, artifact>>
        /\ job'[c].snap = job[c].snap /\ job'[c].names = job[c].names
        /\ job'[c].op = job[c].op /\ job'[c].stale = job[c].stale
    BY <1>1, <1>2 DEF WriteFails, Goto, TypeInv, TypeOK, JobStep, disk
  <2>3. CASE job[c].op = "credential"
    <3>1. Kept(c, {}) /\ active = job[c].snap.active /\ job' = job
      BY <1>1, <2>1, <2>3 DEF Undoable, Small, WriteFails
    <3> QED
      BY <1>2, <2>1, <2>2, <2>3, <3>1
         DEF Undoable, Undone, Small, Kept, Publishing
  <2>4. CASE job[c].op # "credential"
    <3>1. /\ job'[c].todo = Captured(c)
          /\ job'[c].sync = (job[c].sync /\ pc[c] # "artifacts")
      BY <1>1, <1>3, <2>4 DEF WriteFails, TypeInv, TypeOK, Jobs
    <3>2. Kept(c, Captured(c)) /\ config = job[c].snap.config
      BY <1>1, <2>1 DEF Undoable, Captured, Kept, Publishing
    <3>3. ~job'[c].sync => active = job[c].snap.active
      BY <1>1, <2>1, <3>1 DEF Undoable, Publishing
    <3>4. Small(c)'
      BY <2>1, <2>2, <3>1 DEF Small
    <3>5. Undone(c)'
      BY <1>2, <1>3, <2>2, <2>4, <3>1, <3>2, <3>3 DEF Undone, Kept
    <3> QED
      BY <1>2, <1>3, <2>2, <2>4, <3>4, <3>5 DEF Undoable, Publishing
  <2> QED
    BY <2>3, <2>4
<1> QED
  BY <1>1, <1>2, <1>3, RestoreOwn DEF Working

LEMMA RestoreUndoArtifact ==
  ASSUME TypeInv, RestoreInv, NEW c \in Commands, NEW f \in Files,
         UndoArtifact(c, f)
  PROVE  RestoreInv'
<1>1. /\ pc[c] \in Working /\ pc[c] = "undoArtifacts" /\ JobStep(c)
      /\ job[c] \in Jobs /\ job[c].op # "initialize"
  BY AtWork, TypeUndoArtifact DEF UndoArtifact, Working, InitializePhases
<1>2. PICK where \in {"undoArtifacts", "undoActive", "failed"} :
        /\ Goto(c, where)
        /\ where # "undoArtifacts" => LeftAfter(c, f) = {}
        /\ where = "failed" => ~job[c].sync
  BY <1>1, Stays DEF UndoArtifact, TypeInv
<1> PICK skip \in BOOLEAN :
      /\ UndoStep(c, skip)
      /\ IF skip THEN UNCHANGED artifact
                 ELSE SetFile(f, job[c].snap.artifact[f])
      /\ job' = [job EXCEPT ![c].todo = LeftAfter(c, f), ![c].fault = @ \/ skip]
  BY DEF UndoArtifact
<1>3. Undoable(c) /\ Undone(c) /\ Small(c)
  BY <1>1 DEF RestoreInv
<1>4. /\ pc'[c] = where /\ UNCHANGED <<config, active>>
      /\ job'[c].todo = LeftAfter(c, f) /\ job'[c].sync = job[c].sync
      /\ job'[c].snap = job[c].snap /\ job'[c].names = job[c].names
      /\ job'[c].op = job[c].op /\ job'[c].stale = job[c].stale
      /\ ~job'[c].fault => ~job[c].fault /\ ~skip
  BY <1>1, <1>2 DEF UndoArtifact, Goto, TypeInv, TypeOK, Jobs, JobStep
<1>5. ASSUME ~job'[c].fault
      PROVE  \A g \in Files \ LeftAfter(c, f) :
               artifact'[g] = job[c].snap.artifact[g]
  BY <1>1, <1>3, <1>4, <1>5
     DEF Undone, Kept, LeftAfter, SetFile, TypeInv, TypeOK
<1>6. Undone(c)'
  BY <1>1, <1>2, <1>3, <1>4, <1>5 DEF Undone, Kept
<1>7. Undoable(c)' /\ Small(c)'
  BY <1>2, <1>3, <1>4 DEF Undoable, Small, Publishing
<1> QED
  BY <1>1, <1>2, <1>6, <1>7, RestoreOwn DEF Working

LEMMA RestoreUndoActive ==
  ASSUME TypeInv, RestoreInv, NEW c \in Commands, UndoActive(c)
  PROVE  RestoreInv'
<1>1. /\ pc[c] \in Working /\ pc[c] = "undoActive" /\ JobStep(c)
      /\ job[c] \in Jobs /\ job[c].op # "initialize" /\ Goto(c, "failed")
  BY AtWork, TypeUndoActive DEF UndoActive, Working, InitializePhases
<1> PICK skip \in BOOLEAN :
      /\ active' = IF skip THEN active ELSE job[c].snap.active
      /\ job' = [job EXCEPT ![c].fault = @ \/ skip]
  BY DEF UndoActive
<1>2. Undoable(c) /\ Undone(c) /\ Small(c)
  BY <1>1 DEF RestoreInv
<1>3. /\ pc'[c] = "failed" /\ UNCHANGED <<config, artifact>>
      /\ job'[c].sync = job[c].sync
      /\ job'[c].snap = job[c].snap /\ job'[c].names = job[c].names
      /\ job'[c].op = job[c].op /\ job'[c].stale = job[c].stale
      /\ ~job'[c].fault => ~job[c].fault /\ ~skip
  BY <1>1 DEF UndoActive, Goto, TypeInv, TypeOK, Jobs, JobStep
<1>4. Undone(c)'
  BY <1>1, <1>2, <1>3 DEF Undone, Kept
<1>5. Undoable(c)' /\ Small(c)'
  BY <1>2, <1>3 DEF Undoable, Small, Publishing
<1> QED
  BY <1>1, <1>4, <1>5, RestoreOwn DEF Working

LEMMA RestoreFinishFails ==
  ASSUME TypeInv, RestoreInv, NEW c \in Commands, FinishFails(c)
  PROVE  RestoreInv'
<1>1. /\ pc[c] \in Working /\ pc[c] = "finish" /\ JobStep(c)
      /\ job[c] \in Jobs /\ job[c].op # "initialize"
  BY AtWork, TypeFinishFails DEF FinishFails, Working, InitializePhases
<1>2. PICK where \in {"restoreConfig", "unrecovered", "failed",
                      "restoreArtifacts"} :
        /\ Goto(c, where)
        /\ where = "restoreConfig" => job[c].op = "credential" /\ job' = job
        /\ where = "failed" => job[c].op = "restart" /\ job' = job
        /\ where = "restoreArtifacts" =>
             /\ job[c].op # "regenerate"
             /\ job' = [job EXCEPT ![c].todo = Captured(c)]
        /\ where = "unrecovered" => job' = job
  BY DEF FinishFails
<1>3. Undoable(c) /\ Undone(c) /\ Small(c)
  BY <1>1 DEF RestoreInv
<1>4. /\ pc'[c] = where /\ UNCHANGED <<config, active, artifact>>
      /\ job'[c].sync = job[c].sync /\ job'[c].fault = job[c].fault
      /\ job'[c].snap = job[c].snap /\ job'[c].names = job[c].names
      /\ job'[c].op = job[c].op /\ job'[c].stale = job[c].stale
      /\ where = "restoreArtifacts" => job'[c].todo = Captured(c)
  BY <1>1, <1>2 DEF FinishFails, Goto, TypeInv, TypeOK, Jobs, JobStep, disk
<1>5. Undone(c)'
  BY <1>1, <1>2, <1>3, <1>4 DEF Undoable, Undone, Small, Captured, Kept
<1>6. Undoable(c)' /\ Small(c)'
  BY <1>2, <1>3, <1>4 DEF Undoable, Small, Publishing
<1> QED
  BY <1>1, <1>2, <1>5, <1>6, RestoreOwn DEF Working

LEMMA RestoreRestoreArtifact ==
  ASSUME TypeInv, RestoreInv, NEW c \in Commands, NEW f \in Files,
         RestoreArtifact(c, f)
  PROVE  RestoreInv'
<1>1. /\ pc[c] \in Working /\ pc[c] = "restoreArtifacts" /\ JobStep(c)
      /\ job[c] \in Jobs /\ job[c].op # "initialize"
  BY AtWork, TypeRestoreArtifact DEF RestoreArtifact, Working, InitializePhases
<1>2. PICK where \in {"restoreArtifacts", "restoreActive"} :
        /\ Goto(c, where)
        /\ where = "restoreActive" => LeftAfter(c, f) = {}
  BY <1>1, Stays DEF RestoreArtifact, TypeInv
<1>3. Undoable(c) /\ Undone(c) /\ Small(c)
  BY <1>1 DEF RestoreInv
<1>4. /\ pc'[c] = where /\ UNCHANGED <<config, active>>
      /\ job'[c].todo = LeftAfter(c, f) /\ job'[c].sync = job[c].sync
      /\ job'[c].snap = job[c].snap /\ job'[c].names = job[c].names
      /\ job'[c].op = job[c].op /\ job'[c].stale = job[c].stale
      /\ ~job'[c].fault =>
           ~job[c].fault /\ SetFile(f, job[c].snap.artifact[f])
  BY <1>1, <1>2 DEF RestoreArtifact, Goto, TypeInv, TypeOK, Jobs, JobStep
<1>5. ASSUME ~job'[c].fault
      PROVE  \A g \in Files \ LeftAfter(c, f) :
               artifact'[g] = job[c].snap.artifact[g]
  BY <1>1, <1>3, <1>4, <1>5
     DEF Undone, Kept, LeftAfter, SetFile, TypeInv, TypeOK
<1>6. Undone(c)'
  BY <1>1, <1>2, <1>3, <1>4, <1>5 DEF Undone, Kept
<1>7. Undoable(c)' /\ Small(c)'
  BY <1>2, <1>3, <1>4 DEF Undoable, Small, Publishing
<1> QED
  BY <1>1, <1>2, <1>6, <1>7, RestoreOwn DEF Working

(* The remaining steps of a rollback put back one file or none and go to   *)
(* the next phase.                                                         *)
LEMMA RestoreRest ==
  ASSUME TypeInv, RestoreInv, NEW c \in Commands,
         \/ RestoreActive(c) \/ RestoreConfig(c) \/ RestoreFails(c)
         \/ Reactivate(c) \/ ReactivateFails(c) \/ Finish(c)
  PROVE  RestoreInv'
<1>1. pc[c] \in Working
  BY DEF RestoreActive, RestoreConfig, RestoreFails, Reactivate,
     ReactivateFails, Finish, Working
<1>2. job[c] \in Jobs /\ JobStep(c) /\ job' = job
  BY <1>1, AtWork, TypeRestoreActive, TypeRestoreConfig, TypeRestoreFails,
     TypeReactivate, TypeReactivateFails, TypeFinish
     DEF RestoreActive, RestoreConfig, RestoreFails, Reactivate,
     ReactivateFails, Finish
<1>3. PICK where \in {"restoreConfig", "reactivate", "unrecovered", "failed",
                      "done"} : Goto(c, where)
  BY DEF RestoreActive, RestoreConfig, RestoreFails, Reactivate,
     ReactivateFails, Finish
<1>4. pc'[c] = where
  BY <1>3 DEF Goto, TypeInv, TypeOK
<1>5. ASSUME job[c].op # "initialize"
      PROVE  (Undoable(c) /\ Undone(c) /\ Small(c))'
  <2>1. Undoable(c) /\ Undone(c) /\ Small(c)
    BY <1>1, <1>5 DEF RestoreInv
  <2>2. Undoable(c)' /\ Small(c)'
    BY <1>2, <1>4, <2>1 DEF Undoable, Small, Publishing
  <2>3. CASE RestoreActive(c)
    BY <1>2, <1>4, <2>1, <2>2, <2>3
       DEF RestoreActive, Undone, Kept, Goto, TypeInv, TypeOK
  <2>4. CASE RestoreConfig(c)
    BY <1>2, <1>4, <2>1, <2>2, <2>4
       DEF RestoreConfig, Undone, Kept, Goto, TypeInv, TypeOK
  <2>5. CASE Reactivate(c)
    BY <1>2, <1>4, <2>1, <2>2, <2>5
       DEF Reactivate, Undone, Kept, Goto, TypeInv, TypeOK, disk
  <2>6. CASE RestoreFails(c) \/ ReactivateFails(c) \/ Finish(c)
    BY <1>2, <1>4, <2>1, <2>2, <2>6
       DEF RestoreFails, ReactivateFails, Finish, Undone, Goto, TypeInv, TypeOK
  <2> QED
    BY <2>3, <2>4, <2>5, <2>6
<1> QED
  BY <1>1, <1>2, <1>3, <1>5, RestoreOwn DEF Working

LEMMA RestoreBegin ==
  ASSUME TypeInv, RestoreInv, NEW c \in Commands, Begin(c)
  PROVE  RestoreInv'
<1> USE NamesAssumption
<1>1. CASE OpenWizard(c) \/ CloseWizard(c)
  <2>1. \A d \in Commands : pc'[d] \in Working => pc[d] = pc'[d]
    BY <1>1 DEF OpenWizard, CloseWizard, Goto, Working, TypeInv, TypeOK
  <2>2. UNCHANGED <<disk, job>>
    BY <1>1 DEF OpenWizard, CloseWizard
  <2> QED
    BY <2>1, <2>2, RestoreElsewhere
<1>2. ASSUME NEW op \in Ops \ {"credential", "restart", "initialize"},
             NEW target \in Configs, StartApply(c, op, target)
      PROVE  RestoreInv'
  <2> DEFINE clientsOnly == op = "template"
             names == IF clientsOnly THEN NamesOf[target.node] \cap TemplateFiles
                                     ELSE NamesOf[target.node]
             stale == StaleNames(names, clientsOnly)
             changed == \/ stale # {}
                        \/ \E f \in names : artifact[f] # Content(target, f)
             sync == /\ ~clientsOnly
                     /\ active # Absent
                     /\ changed \/ active # Server(target)
  <2>1. names \in SUBSET Files /\ sync \in BOOLEAN
    BY DEF Configs
  <2>2. PICK where \in {"artifacts", "config"} :
          Enter(c, op, target, names, stale, sync, where)
    BY <1>2 DEF StartApply
  <2> HIDE DEF names, stale, sync
  <2> QED
    BY <2>1, <2>2, RestoreEnter DEF Enter
<1>3. CASE ConfirmWizard(c)
  <2>1. prompt[c].target \in Configs
    BY <1>3 DEF ConfirmWizard, TypeInv, Shape, Prompts
  <2>2. CASE config # Absent
    <3>1. \E op \in {"template", "commit"} : StartApply(c, op, prompt[c].target)
      BY <1>3, <2>2 DEF ConfirmWizard
    <3> QED
      BY <2>1, <3>1, <1>2 DEF Ops
  <2>3. CASE config = Absent
    <3> DEFINE names == NamesOf[prompt[c].target.node]
    <3>1. Enter(c, "initialize", prompt[c].target, names, {}, FALSE, "artifacts")
      BY <1>3, <2>3 DEF ConfirmWizard
    <3>2. names \in SUBSET Files /\ lock = Free
      BY <2>1, <3>1 DEF Configs, Enter
    <3> HIDE DEF names
    <3> QED
      BY <3>1, <3>2, RestoreEnter DEF Ops
  <2> QED
    BY <2>2, <2>3
<1>4. CASE SwitchTemplate(c)
  <2>1. PICK t \in Templates : StartApply(c, "template",
                                          [config EXCEPT !.template = t])
    BY <1>4 DEF SwitchTemplate
  <2>2. [config EXCEPT !.template = t] \in Configs
    BY <1>4 DEF SwitchTemplate, TypeInv, TypeOK, Configs
  <2> QED
    BY <1>2, <2>1, <2>2 DEF Ops
<1>5. CASE Reapply(c)
  BY <1>2, <1>5 DEF Reapply, Ops, TypeInv, TypeOK
<1>6. CASE Regenerate(c)
  <2> DEFINE names == NamesOf[config.node]
             stale == StaleNames(names, FALSE)
  <2>1. Enter(c, "regenerate", config, names, stale, TRUE, "artifacts")
    BY <1>6 DEF Regenerate
  <2>2. names \in SUBSET Files
    BY <1>6 DEF Regenerate, TypeInv, TypeOK, Configs
  <2> HIDE DEF names, stale
  <2> QED
    BY <2>1, <2>2, RestoreEnter DEF Ops, Enter
<1>7. CASE RotateSecret(c)
  BY <1>7, RestoreEnter DEF RotateSecret, Ops, Enter
<1>8. CASE Restart(c)
  BY <1>8, RestoreEnter DEF Restart, Ops, Enter
<1> QED
  BY <1>1, <1>3, <1>4, <1>5, <1>6, <1>7, <1>8 DEF Begin

LEMMA RestoreNext == TypeInv /\ RestoreInv /\ [Next]_vars => RestoreInv'
<1> SUFFICES ASSUME TypeInv, RestoreInv, [Next]_vars PROVE RestoreInv'
  OBVIOUS
<1>1. CASE UNCHANGED vars
  BY <1>1, RestoreElsewhere DEF vars, disk
<1>2. ASSUME NEW c \in Commands, Begin(c) PROVE RestoreInv'
  BY <1>2, RestoreBegin
<1>3. ASSUME NEW c \in Commands, Step(c), ~Release(c) PROVE RestoreInv'
  BY <1>3, RestoreWriteArtifact, RestorePrune, RestoreUndoArtifact,
     RestoreRestoreArtifact, RestoreWriteActive, RestoreWriteConfig,
     RestoreWriteFails, RestorePruneFails, RestoreUndoActive, RestoreRest,
     RestoreFinishFails DEF Step
<1>4. ASSUME NEW c \in Commands, Release(c) \/ Crash(c) PROVE RestoreInv'
  <2>1. \A d \in Commands : pc'[d] \in Working =>
           pc[d] = pc'[d] /\ job'[d] = job[d]
    BY <1>4 DEF Release, Crash, Goto, Working, TypeInv, TypeOK
  <2>2. UNCHANGED disk
    BY <1>4 DEF Release, Crash
  <2> QED
    BY <2>1, <2>2, RestoreElsewhere
<1>5. CASE ServiceRestarts
  BY <1>5, RestoreElsewhere DEF ServiceRestarts
<1> QED
  BY <1>1, <1>2, <1>3, <1>4, <1>5 DEF Next

(* A command that reports a failure after a complete rollback has left the *)
(* configuration, every artifact and the active file exactly as they were  *)
(* when it took the lock, wherever it failed.                              *)
THEOREM FailureRestoresDeployment == Spec => []FailureRestores
BY TypeAlways, RestoreImplies, RestoreInit, RestoreNext, PTL DEF Spec

-----------------------------------------------------------------------------
(* A quiet host holds one whole deployment, and seen between commands the  *)
(* deployment changes all at once or not at all.  The invariant says of    *)
(* the command inside what it planned (Planned), how far its publication   *)
(* is (Laid), and that it began on a whole deployment unless the host is   *)
(* suspect (Sound).                                                        *)

(* A file set that one configuration generates, or the empty one.          *)
OneDeployment(img) ==
  /\ img.config = Absent =>
       /\ \A f \in Files : img.artifact[f] = Absent
       /\ img.active = Absent
  /\ img.config # Absent =>
       /\ \A f \in Files : img.artifact[f] = Generated(img.config)[f]
       /\ img.active \in {Absent, Server(img.config)}

(* What the steps of a command do not change of its job.                   *)
PlannedFiles(j) ==
  /\ j.names \cap j.stale = {}
  /\ j.op \in {"initialize", "commit", "activate", "regenerate"} =>
       j.names = NamesOf[j.target.node]
  /\ j.op \in {"commit", "activate", "regenerate"} =>
       \A f \in Files \ (j.names \cup j.stale) : j.snap.artifact[f] = Absent
  /\ j.op = "template" =>
       /\ j.names = NamesOf[j.target.node] \cap TemplateFiles
       /\ j.stale = {f \in TemplateFiles \ j.names : j.snap.artifact[f] # Absent}
  /\ j.op \in {"initialize", "credential", "restart"} => j.stale = {}
  /\ j.op \in {"credential", "restart"} => j.names = {}
  /\ j.op \in {"initialize", "template", "credential", "restart"} => ~j.sync
  /\ j.op \in {"commit", "activate"} /\ j.sync => j.snap.active # Absent

PlannedTarget(j) ==
  /\ j.op = "initialize" <=> j.snap.config = Absent
  /\ j.op = "initialize" => j.target.secret = 0
  /\ j.op \in {"activate", "regenerate", "restart"} => j.target = j.snap.config
  /\ j.op \in {"commit", "template"} => j.target.secret = j.snap.config.secret
  /\ j.op = "template" => j.target.node = j.snap.config.node
  /\ j.op = "credential" =>
       /\ j.target.node = j.snap.config.node
       /\ j.target.template = j.snap.config.template
       /\ j.target.secret > j.snap.config.secret

(* The command has not begun to undo what it does.  A regeneration whose   *)
(* storage preparation fails keeps what it published.                      *)
Forward(c) ==
  \/ pc[c] \in Publishing \cup {"prune", "finish", "done"}
  \/ pc[c] = "unrecovered" /\ ~suspect

(* How far the files are from the snapshot and from the target.            *)
Laid(c) ==
  LET j == job[c] IN
  /\ \A f \in j.names :
       \/ pc[c] = "artifacts" /\ f \in j.todo
       \/ artifact[f] = Content(j.target, f)
  /\ \A f \in Files \ (j.names \cup j.stale) :
       artifact[f] = j.snap.artifact[f]
  /\ \A f \in j.stale :
       \/ pc[c] \in Publishing
       \/ pc[c] = "prune" /\ f \in j.todo
       \/ j.fault \/ artifact[f] = Absent
  /\ active = IF j.sync /\ pc[c] \notin {"artifacts", "active"}
                THEN Server(j.target) ELSE j.snap.active
  /\ config = IF pc[c] \in Publishing THEN j.snap.config ELSE j.target
  /\ j.op \in {"commit", "activate"} /\ ~j.sync =>
       j.snap.active \in {Absent, Server(j.target)}
  /\ j.op = "regenerate" \/ pc[c] = "active" => j.sync
  /\ pc[c] = "artifacts" => j.todo \subseteq j.names
  /\ pc[c] = "prune" => j.todo \subseteq j.stale

Sound(c) ==
  /\ PlannedFiles(job[c]) /\ PlannedTarget(job[c])
  /\ Forward(c) => Laid(c)
  /\ config \in {job[c].snap.config, job[c].target}
  /\ ~suspect => ~job[c].fault /\ OneDeployment(job[c].snap)
  /\ pc[c] = "unrecovered" => suspect \/ job[c].op = "regenerate"

(* A prompt asks for a configuration with the credential it was opened on. *)
PromptKeeps(c) ==
  pc[c] = "editing" =>
    prompt[c].target.secret = IF prompt[c].expected = Absent
                                THEN 0 ELSE prompt[c].expected.secret

WholeInv ==
  /\ lock = Free /\ ~suspect => OneDeployment(Image)
  /\ \A c \in Commands : (pc[c] \in Working => Sound(c)) /\ PromptKeeps(c)

-----------------------------------------------------------------------------
LEMMA WholeInit == Init => WholeInv
<1> SUFFICES ASSUME Init PROVE WholeInv
  OBVIOUS
<1>1. OneDeployment(Image)
  <2>1. CASE config = Absent
    BY <2>1, ConstantsAssumption DEF Init, OneDeployment, Image, Configs
  <2>2. CASE config # Absent
    BY <2>2 DEF Init, OneDeployment, Image
  <2> QED
    BY <2>1, <2>2
<1> QED
  BY <1>1 DEF Init, WholeInv, PromptKeeps, Working

(* A step of the command inside keeps its plan.                            *)
LEMMA PlanStays ==
  ASSUME NEW c \in Commands, JobStep(c), job'[c].sync => job[c].sync,
         PlannedFiles(job[c]), PlannedTarget(job[c])
  PROVE  PlannedFiles(job'[c]) /\ PlannedTarget(job'[c])
BY DEF JobStep, PlannedFiles, PlannedTarget

(* Only the command inside has to be looked at, and of it only how far its *)
(* publication is.                                                         *)
LEMMA WholeOwn ==
  ASSUME TypeInv, WholeInv, NEW c \in Commands, pc[c] \in Working,
         JobStep(c), job'[c].sync => job[c].sync,
         NEW where \in Working, Goto(c, where), UNCHANGED <<lock, prompt>>,
         \/ suspect'
         \/ suspect' = suspect /\ job'[c].fault = job[c].fault,
         config' \in {job[c].snap.config, job[c].target},
         where = "unrecovered" => suspect' \/ job[c].op = "regenerate",
         Forward(c)' => Laid(c)'
  PROVE  WholeInv'
<1>1. Sound(c) /\ lock = c /\ lock' # Free
  BY AtWork, ConstantsAssumption DEF WholeInv
<1>2. pc'[c] = where
  BY DEF Goto, TypeInv, TypeOK
<1>3. PlannedFiles(job'[c]) /\ PlannedTarget(job'[c])
  BY <1>1, PlanStays DEF Sound
<1>4. ~suspect' => ~job'[c].fault /\ OneDeployment(job'[c].snap)
  BY <1>1 DEF Sound, JobStep
<1>5. Sound(c)'
  BY <1>2, <1>3, <1>4 DEF Sound, JobStep
<1>6. ASSUME NEW d \in Commands PROVE (pc[d] \in Working => Sound(d))'
  BY <1>5, AtWork DEF Goto, TypeInv, TypeOK
<1>7. ASSUME NEW d \in Commands PROVE PromptKeeps(d)'
  BY <1>2 DEF WholeInv, PromptKeeps, Goto, TypeInv, TypeOK, Working
<1> QED
  BY <1>1, <1>6, <1>7 DEF WholeInv

(* What the command inside has found and done.                             *)
LEMMA Inside ==
  ASSUME TypeInv, WholeInv, NEW c \in Commands, pc[c] \in Working
  PROVE  /\ Sound(c) /\ PlannedFiles(job[c]) /\ PlannedTarget(job[c])
         /\ Forward(c) => Laid(c)
         /\ job[c] \in Jobs
BY AtWork DEF WholeInv, Sound

LEMMA WholeWriteArtifact ==
  ASSUME TypeInv, WholeInv, NEW c \in Commands, NEW f \in Files,
         WriteArtifact(c, f)
  PROVE  WholeInv'
<1>1. /\ pc[c] \in Working /\ pc[c] = "artifacts" /\ JobStep(c)
      /\ job[c] \in Jobs
  BY AtWork, TypeWriteArtifact DEF WriteArtifact, Working
<1>2. PICK where \in {"artifacts", AfterArtifacts(c)} :
        /\ Goto(c, where)
        /\ where # "artifacts" => LeftAfter(c, f) = {}
  BY <1>1, Stays DEF WriteArtifact, TypeInv
<1>3. /\ where \in {"artifacts", "active", "config"}
      /\ where = "active" => job[c].sync
      /\ where = "config" => ~job[c].sync
  BY <1>2 DEF AfterArtifacts
<1>4. Laid(c) /\ PlannedFiles(job[c]) /\ PlannedTarget(job[c])
  BY <1>1, Inside DEF Forward, Publishing
<1>5. /\ pc'[c] = where /\ UNCHANGED <<config, active, suspect>>
      /\ job'[c].sync = job[c].sync /\ job'[c].fault = job[c].fault
      /\ job'[c].todo = job[c].todo \ {f}
      /\ job'[c].snap = job[c].snap /\ job'[c].target = job[c].target
      /\ job'[c].names = job[c].names /\ job'[c].stale = job[c].stale
      /\ job'[c].op = job[c].op
  BY <1>1, <1>2 DEF WriteArtifact, Goto, TypeInv, TypeOK, Jobs, LeftAfter, JobStep
<1>6. /\ artifact' = [artifact EXCEPT ![f] = Content(job[c].target, f)]
      /\ artifact'[f] = Content(job[c].target, f)
      /\ \A g \in Files : g # f => artifact'[g] = artifact[g]
  BY DEF WriteArtifact, SetFile, TypeInv, TypeOK
<1>7. f \in job[c].todo /\ f \in job[c].names /\ job[c].names \subseteq Files
  BY <1>1, <1>4 DEF WriteArtifact, Laid, Jobs
<1>8. \A g \in job[c].names :
        \/ where = "artifacts" /\ g \in job[c].todo \ {f}
        \/ artifact'[g] = Content(job[c].target, g)
  BY <1>1, <1>2, <1>4, <1>6, <1>7 DEF Laid, LeftAfter
<1>9. \A g \in Files \ (job[c].names \cup job[c].stale) :
        artifact'[g] = job[c].snap.artifact[g]
  BY <1>4, <1>6, <1>7 DEF Laid
<1>10. /\ active = job[c].snap.active /\ config = job[c].snap.config
       /\ job[c].op \in {"commit", "activate"} /\ ~job[c].sync =>
            job[c].snap.active \in {Absent, Server(job[c].target)}
       /\ job[c].op = "regenerate" => job[c].sync
       /\ job[c].todo \subseteq job[c].names
  BY <1>1, <1>4 DEF Laid, Publishing
<1>11. Laid(c)'
  BY <1>3, <1>5, <1>8, <1>9, <1>10 DEF Laid, Publishing
<1> QED
  BY <1>1, <1>2, <1>3, <1>5, <1>10, <1>11, WholeOwn
     DEF WriteArtifact, Working

LEMMA WholeWriteActive ==
  ASSUME TypeInv, WholeInv, NEW c \in Commands, WriteActive(c)
  PROVE  WholeInv'
<1>1. /\ pc[c] \in Working /\ pc[c] = "active" /\ JobStep(c)
      /\ job[c] \in Jobs
  BY AtWork, TypeWriteActive DEF WriteActive, Working
<1>2. /\ AfterActive(c) \in {"prune", "finish", "config"}
      /\ AfterActive(c) # "config" => job[c].op = "regenerate"
      /\ AfterActive(c) = "finish" => job[c].stale = {}
      /\ Goto(c, AfterActive(c))
  BY DEF AfterActive, PruneOrFinish, WriteActive, Phase
<1>3. Laid(c) /\ PlannedFiles(job[c]) /\ PlannedTarget(job[c])
  BY <1>1, Inside DEF Forward, Publishing
<1>4. /\ pc'[c] = AfterActive(c) /\ UNCHANGED <<config, artifact, suspect>>
      /\ active' = Server(job[c].target)
      /\ job'[c].sync = job[c].sync /\ job'[c].fault = job[c].fault
      /\ pc'[c] = "prune" => job'[c].todo = job[c].stale
      /\ job'[c].snap = job[c].snap /\ job'[c].target = job[c].target
      /\ job'[c].names = job[c].names /\ job'[c].stale = job[c].stale
      /\ job'[c].op = job[c].op
  BY <1>1, <1>2
     DEF WriteActive, Phase, Goto, TypeInv, TypeOK, Jobs, JobStep
<1>5. /\ job[c].sync /\ config = job[c].snap.config
      /\ \A f \in job[c].names : artifact[f] = Content(job[c].target, f)
      /\ \A f \in Files \ (job[c].names \cup job[c].stale) :
           artifact[f] = job[c].snap.artifact[f]
  BY <1>1, <1>3 DEF Laid, Publishing
<1>6. job[c].op = "regenerate" => job[c].target = job[c].snap.config
  BY <1>3 DEF PlannedTarget
<1>7. Laid(c)'
  BY <1>2, <1>4, <1>5, <1>6 DEF Laid, Publishing
<1> QED
  BY <1>1, <1>2, <1>4, <1>5, <1>7, WholeOwn
     DEF WriteActive, Working

LEMMA WholeWriteConfig ==
  ASSUME TypeInv, WholeInv, NEW c \in Commands, WriteConfig(c)
  PROVE  WholeInv'
<1>1. /\ pc[c] \in Working /\ pc[c] = "config" /\ JobStep(c)
      /\ job[c] \in Jobs
  BY AtWork, TypeWriteConfig DEF WriteConfig, Working
<1>2. Laid(c) /\ PlannedFiles(job[c]) /\ PlannedTarget(job[c])
  BY <1>1, Inside DEF Forward, Publishing
<1>3. /\ AfterConfig(c) \in {"prune", "finish", "done"}
      /\ AfterConfig(c) # "prune" => job[c].stale = {}
      /\ Goto(c, AfterConfig(c))
  BY <1>2 DEF AfterConfig, PruneOrFinish, WriteConfig, Phase, PlannedFiles
<1>4. /\ pc'[c] = AfterConfig(c) /\ UNCHANGED <<active, artifact, suspect>>
      /\ config' = job[c].target
      /\ job'[c].sync = job[c].sync /\ job'[c].fault = job[c].fault
      /\ pc'[c] = "prune" => job'[c].todo = job[c].stale
      /\ job'[c].snap = job[c].snap /\ job'[c].target = job[c].target
      /\ job'[c].names = job[c].names /\ job'[c].stale = job[c].stale
      /\ job'[c].op = job[c].op
  BY <1>1, <1>3
     DEF WriteConfig, Phase, Goto, TypeInv, TypeOK, Jobs, JobStep
<1>5. /\ active = IF job[c].sync THEN Server(job[c].target)
                                 ELSE job[c].snap.active
      /\ \A f \in job[c].names : artifact[f] = Content(job[c].target, f)
      /\ \A f \in Files \ (job[c].names \cup job[c].stale) :
           artifact[f] = job[c].snap.artifact[f]
      /\ job[c].op \in {"commit", "activate"} /\ ~job[c].sync =>
           job[c].snap.active \in {Absent, Server(job[c].target)}
      /\ job[c].op = "regenerate" => job[c].sync
  BY <1>1, <1>2 DEF Laid, Publishing
<1>6. Laid(c)'
  BY <1>3, <1>4, <1>5 DEF Laid, Publishing
<1> QED
  BY <1>1, <1>3, <1>4, <1>6, WholeOwn DEF WriteConfig, Working

LEMMA WholePrune ==
  ASSUME TypeInv, WholeInv, NEW c \in Commands, NEW f \in Files, Prune(c, f)
  PROVE  WholeInv'
<1>1. /\ pc[c] \in Working /\ pc[c] = "prune" /\ JobStep(c)
      /\ job[c] \in Jobs
  BY AtWork, TypePrune DEF Prune, Working
<1>2. PICK where \in {"prune", "finish"} :
        /\ Goto(c, where)
        /\ where = "finish" => LeftAfter(c, f) = {}
  BY <1>1, Stays DEF Prune, TypeInv
<1>3. Laid(c) /\ PlannedFiles(job[c])
  BY <1>1, Inside DEF Forward, Publishing
<1>4. /\ pc'[c] = where /\ UNCHANGED <<config, active, suspect>>
      /\ job'[c].sync = job[c].sync /\ job'[c].fault = job[c].fault
      /\ job'[c].todo = job[c].todo \ {f}
      /\ job'[c].snap = job[c].snap /\ job'[c].target = job[c].target
      /\ job'[c].names = job[c].names /\ job'[c].stale = job[c].stale
      /\ job'[c].op = job[c].op
  BY <1>1, <1>2 DEF Prune, Goto, TypeInv, TypeOK, Jobs, LeftAfter, JobStep
<1>5. /\ artifact'[f] = Absent
      /\ \A g \in Files : g # f => artifact'[g] = artifact[g]
  BY DEF Prune, SetFile, TypeInv, TypeOK
<1>6. /\ f \in job[c].stale /\ f \notin job[c].names
      /\ job[c].names \subseteq Files /\ job[c].stale \subseteq Files
  BY <1>1, <1>3 DEF Prune, Laid, PlannedFiles, Jobs
<1>7. /\ \A g \in job[c].names : artifact'[g] = Content(job[c].target, g)
      /\ \A g \in Files \ (job[c].names \cup job[c].stale) :
           artifact'[g] = job[c].snap.artifact[g]
  BY <1>1, <1>3, <1>5, <1>6 DEF Laid
<1>8. \A g \in job[c].stale :
        \/ where = "prune" /\ g \in job[c].todo \ {f}
        \/ job[c].fault \/ artifact'[g] = Absent
  BY <1>1, <1>2, <1>3, <1>5, <1>6 DEF Laid, LeftAfter, Publishing
<1>9. Laid(c)'
  BY <1>1, <1>2, <1>3, <1>4, <1>7, <1>8 DEF Laid, Publishing
<1>10. config' = job[c].target
  BY <1>1, <1>3, <1>4 DEF Laid, Publishing
<1> QED
  BY <1>1, <1>2, <1>4, <1>9, <1>10, WholeOwn DEF Prune, Working

(* Steps of the way forth that replace nothing.                            *)
LEMMA WholePruneFails ==
  ASSUME TypeInv, WholeInv, NEW c \in Commands, PruneFails(c)
  PROVE  WholeInv'
<1>1. /\ pc[c] \in Working /\ pc[c] = "prune" /\ JobStep(c)
      /\ job[c] \in Jobs /\ Goto(c, "finish")
  BY AtWork, TypePruneFails DEF PruneFails, Working
<1>2. Laid(c)
  BY <1>1, Inside DEF Forward
<1>3. /\ pc'[c] = "finish" /\ UNCHANGED <<config, active, artifact>>
      /\ job'[c].sync = job[c].sync /\ job'[c].fault /\ suspect'
      /\ job'[c].snap = job[c].snap /\ job'[c].target = job[c].target
      /\ job'[c].names = job[c].names /\ job'[c].stale = job[c].stale
      /\ job'[c].op = job[c].op
  BY <1>1 DEF PruneFails, Goto, TypeInv, TypeOK, Jobs, JobStep, disk
<1>4. Laid(c)'
  BY <1>1, <1>2, <1>3 DEF Laid, Publishing
<1>5. config' = job[c].target
  BY <1>1, <1>2, <1>3 DEF Laid, Publishing
<1> QED
  BY <1>1, <1>3, <1>4, <1>5, WholeOwn DEF PruneFails, Working

LEMMA WholeFinish ==
  ASSUME TypeInv, WholeInv, NEW c \in Commands, Finish(c) \/ FinishFails(c)
  PROVE  WholeInv'
<1>1. /\ pc[c] \in Working /\ pc[c] = "finish" /\ JobStep(c)
      /\ job[c] \in Jobs
  BY AtWork, TypeFinish, TypeFinishFails DEF Finish, FinishFails, Working
<1>2. PICK where \in {"done", "unrecovered", "restoreConfig", "failed",
                      "restoreArtifacts"} :
        /\ Goto(c, where)
        /\ where = "unrecovered" => job[c].op = "regenerate"
        /\ where # "restoreArtifacts" => job' = job
        /\ where = "restoreArtifacts" => job' = [job EXCEPT ![c].todo = Captured(c)]
  BY DEF Finish, FinishFails
<1>3. Laid(c)
  BY <1>1, Inside DEF Forward
<1>4. /\ pc'[c] = where /\ UNCHANGED <<config, active, artifact, suspect>>
      /\ job'[c].sync = job[c].sync /\ job'[c].fault = job[c].fault
  BY <1>1, <1>2 DEF Finish, FinishFails, Goto, TypeInv, TypeOK, Jobs, JobStep, disk
<1>5. Forward(c)' => Laid(c)'
  <2>1. CASE where \in {"done", "unrecovered"}
    BY <1>1, <1>2, <1>3, <1>4, <2>1 DEF Laid, Publishing
  <2>2. CASE where \notin {"done", "unrecovered"}
    BY <1>2, <1>4, <2>2 DEF Forward, Publishing
  <2> QED
    BY <2>1, <2>2
<1>6. config' = job[c].target
  BY <1>1, <1>3, <1>4 DEF Laid, Publishing
<1>7. UNCHANGED <<lock, prompt>>
  BY DEF Finish, FinishFails
<1> QED
  BY <1>1, <1>2, <1>4, <1>5, <1>6, <1>7, WholeOwn DEF Working

(* A failed write turns the command back; only a first initialisation,     *)
(* which makes the host suspect, has no way back.                          *)
LEMMA WholeWriteFails ==
  ASSUME TypeInv, WholeInv, NEW c \in Commands, WriteFails(c)
  PROVE  WholeInv'
<1>1. /\ pc[c] \in Working /\ pc[c] \in Publishing /\ JobStep(c)
      /\ job[c] \in Jobs
  BY AtWork, TypeWriteFails DEF WriteFails, Working, Publishing
<1>2. PICK where \in {"unrecovered", "restoreConfig", "undoArtifacts"} :
        /\ Goto(c, where)
        /\ where = "unrecovered" => suspect'
        /\ where # "unrecovered" => UNCHANGED suspect
  BY DEF WriteFails
<1>3. /\ pc'[c] = where /\ UNCHANGED config
      /\ job'[c].fault = job[c].fault
      /\ job'[c].sync => job[c].sync
  BY <1>1, <1>2 DEF WriteFails, Goto, TypeInv, TypeOK, Jobs, JobStep, disk
<1>4. ~Forward(c)'
  BY <1>2, <1>3 DEF Forward, Publishing
<1>5. config = job[c].snap.config
  BY <1>1, Inside DEF Forward, Laid
<1>6. UNCHANGED <<lock, prompt>>
  BY DEF WriteFails
<1> QED
  BY <1>1, <1>2, <1>3, <1>4, <1>5, <1>6, WholeOwn DEF Working, TypeInv, TypeOK

(* The steps of a rollback never go forward again.                         *)
LEMMA WholeBack ==
  ASSUME TypeInv, WholeInv, NEW c \in Commands, pc[c] \in Working, JobStep(c),
         job'[c].sync => job[c].sync,
         NEW where \in {"undoArtifacts", "undoActive", "restoreArtifacts",
                        "restoreActive", "restoreConfig", "reactivate",
                        "failed", "unrecovered"},
         Goto(c, where), UNCHANGED <<lock, prompt>>,
         \/ suspect'
         \/ suspect' = suspect /\ job'[c].fault = job[c].fault,
         config' \in {config, job[c].snap.config},
         where = "unrecovered" => suspect'
  PROVE  WholeInv'
<1>1. pc'[c] = where
  BY DEF Goto, TypeInv, TypeOK
<1>2. ~Forward(c)'
  BY <1>1 DEF Forward, Publishing
<1>3. config' \in {job[c].snap.config, job[c].target}
  BY Inside DEF Sound
<1> QED
  BY <1>2, <1>3, WholeOwn DEF Working

LEMMA WholeUndoes ==
  ASSUME TypeInv, WholeInv, NEW c \in Commands,
         (\E f \in Files : UndoArtifact(c, f) \/ RestoreArtifact(c, f))
           \/ UndoActive(c) \/ RestoreActive(c) \/ RestoreConfig(c)
           \/ RestoreFails(c) \/ Reactivate(c) \/ ReactivateFails(c)
  PROVE  WholeInv'
<1> USE DEF TypeInv, TypeOK
<1>1. ASSUME NEW f \in Files, UndoArtifact(c, f) PROVE WholeInv'
  <2>1. /\ pc[c] \in Working /\ pc[c] = "undoArtifacts" /\ JobStep(c)
        /\ job[c] \in Jobs
    BY <1>1, AtWork, TypeUndoArtifact DEF UndoArtifact, Working
  <2>2. PICK where \in {"undoArtifacts", "undoActive", "failed"} : Goto(c, where)
    BY <1>1, <2>1, Stays DEF UndoArtifact
  <2>3. /\ job'[c].sync = job[c].sync
        /\ suspect' \/ (suspect' = suspect /\ job'[c].fault = job[c].fault)
    <3>1. PICK skip \in BOOLEAN :
            /\ UndoStep(c, skip)
            /\ job' = [job EXCEPT ![c].todo = LeftAfter(c, f),
                                  ![c].fault = @ \/ skip]
      BY <1>1 DEF UndoArtifact
    <3>2. job'[c].sync = job[c].sync /\ job'[c].fault = (job[c].fault \/ skip)
      BY <2>1, <3>1 DEF Jobs
    <3> QED
      BY <2>1, <3>1, <3>2 DEF UndoStep, Jobs
  <2> QED
    BY <1>1, <2>1, <2>2, <2>3, WholeBack DEF UndoArtifact
<1>2. ASSUME NEW f \in Files, RestoreArtifact(c, f) PROVE WholeInv'
  <2>1. /\ pc[c] \in Working /\ pc[c] = "restoreArtifacts" /\ JobStep(c)
        /\ job[c] \in Jobs
    BY <1>2, AtWork, TypeRestoreArtifact DEF RestoreArtifact, Working
  <2>2. PICK where \in {"restoreArtifacts", "restoreActive"} : Goto(c, where)
    BY <1>2, <2>1, Stays DEF RestoreArtifact
  <2>3. /\ job'[c].sync = job[c].sync
        /\ suspect' \/ (suspect' = suspect /\ job'[c].fault = job[c].fault)
    BY <1>2, <2>1 DEF RestoreArtifact, JobStep, Jobs
  <2> QED
    BY <1>2, <2>1, <2>2, <2>3, WholeBack DEF RestoreArtifact
<1>3. CASE UndoActive(c)
  <2>1. /\ pc[c] \in Working /\ JobStep(c) /\ job[c] \in Jobs
        /\ Goto(c, "failed")
    BY <1>3, AtWork, TypeUndoActive DEF UndoActive, Working
  <2>2. /\ job'[c].sync = job[c].sync
        /\ suspect' \/ (suspect' = suspect /\ job'[c].fault = job[c].fault)
    BY <1>3, <2>1 DEF UndoActive, UndoStep, JobStep, Jobs
  <2> QED
    BY <1>3, <2>1, <2>2, WholeBack DEF UndoActive
<1>4. CASE RestoreActive(c) \/ RestoreConfig(c) \/ RestoreFails(c)
             \/ Reactivate(c) \/ ReactivateFails(c)
  <2>1. /\ pc[c] \in Working /\ job' = job
        /\ config' \in {config, job[c].snap.config}
        /\ UNCHANGED <<lock, prompt>>
    BY <1>4 DEF RestoreActive, RestoreConfig, RestoreFails, Reactivate,
       ReactivateFails, Working, disk
  <2>2. JobStep(c)
    BY <2>1, AtWork DEF JobStep
  <2>3. PICK where \in {"restoreConfig", "reactivate", "failed", "unrecovered"} :
          /\ Goto(c, where)
          /\ suspect' \/ suspect' = suspect
          /\ where = "unrecovered" => suspect'
    BY <1>4 DEF RestoreActive, RestoreConfig, RestoreFails, Reactivate,
       ReactivateFails
  <2> QED
    BY <2>1, <2>2, <2>3, WholeBack
<1> QED
  BY <1>1, <1>2, <1>3, <1>4

-----------------------------------------------------------------------------
(* What the last step of a command leaves on disk.                         *)
LEMMA LaidWhole ==
  ASSUME TypeInv, WholeInv, NEW c \in Commands, pc[c] \in Working,
         Forward(c), pc[c] \notin Publishing \cup {"prune"}, ~job[c].fault,
         \/ job[c].op \in {"commit", "activate", "regenerate"}
         \/ OneDeployment(job[c].snap)
  PROVE  /\ config = job[c].target /\ config # Absent
         /\ OneDeployment(Image)
<1> DEFINE j == job[c]
<1>1. /\ Laid(c) /\ PlannedFiles(j) /\ PlannedTarget(j) /\ j \in Jobs
  BY Inside
<1> USE NamesAssumption, ConstantsAssumption
<1>2. config = j.target /\ config \in Configs /\ config # Absent
  BY <1>1 DEF Laid, Jobs
<1>3. /\ pc[c] # "artifacts" /\ pc[c] # "active" /\ pc[c] # "prune"
  BY DEF Publishing
<1>4. /\ \A f \in j.names : artifact[f] = Content(config, f)
      /\ \A f \in Files \ (j.names \cup j.stale) : artifact[f] = j.snap.artifact[f]
      /\ \A f \in j.stale : artifact[f] = Absent
      /\ active = IF j.sync THEN Server(config) ELSE j.snap.active
  BY <1>1, <1>2, <1>3 DEF Laid
<1>5. /\ \A f \in Files : artifact[f] = Generated(config)[f]
      /\ active \in {Absent, Server(config)}
  <2>1. CASE j.op \in {"commit", "activate", "regenerate"}
    <3>1. \A f \in Files : artifact[f] = Generated(config)[f]
      BY <1>1, <1>2, <1>4, <2>1 DEF PlannedFiles, Generated
    <3>2. active \in {Absent, Server(config)}
      BY <1>1, <1>2, <1>4, <2>1 DEF Laid
    <3> QED
      BY <3>1, <3>2
  <2>2. CASE j.op = "initialize"
    <3>1. OneDeployment(j.snap) /\ j.snap.config = Absent /\ ~j.sync
      BY <1>1, <2>2 DEF PlannedFiles, PlannedTarget
    <3> QED
      BY <1>1, <1>2, <1>4, <2>2, <3>1 DEF PlannedFiles, Generated, OneDeployment
  <2>3. CASE j.op \in {"template", "credential", "restart"}
    <3>1. /\ OneDeployment(j.snap) /\ j.snap.config # Absent /\ ~j.sync
          /\ j.snap.config.node = config.node
          /\ j.op # "template" => j.snap.config.template = config.template
      BY <1>1, <1>2, <2>3 DEF PlannedFiles, PlannedTarget
    <3>2. \A f \in Files : f \notin TemplateFiles \/ j.op # "template"
            => Content(j.snap.config, f) = Content(config, f)
      BY <3>1 DEF Content
    <3>3. active \in {Absent, Server(config)}
      BY <1>4, <3>1, <3>2 DEF OneDeployment, Server
    <3>4. \A f \in Files : j.snap.artifact[f] =
            IF f \in NamesOf[config.node] THEN Content(j.snap.config, f)
                                          ELSE Absent
      BY <3>1 DEF OneDeployment, Generated
    <3>5. CASE j.op = "template"
      <4>1. /\ j.names = NamesOf[config.node] \cap TemplateFiles
            /\ j.stale \subseteq TemplateFiles \ j.names
        BY <1>1, <1>2, <3>5 DEF PlannedFiles
      <4>2. ASSUME NEW f \in Files PROVE artifact[f] = Generated(config)[f]
        BY <1>4, <3>2, <3>4, <4>1 DEF Generated
      <4> QED
        BY <3>3, <4>2
    <3>6. CASE j.op # "template"
      <4>1. j.names = {} /\ j.stale = {}
        BY <1>1, <2>3, <3>6 DEF PlannedFiles
      <4>2. ASSUME NEW f \in Files PROVE artifact[f] = Generated(config)[f]
        BY <1>4, <3>2, <3>4, <3>6, <4>1 DEF Generated
      <4> QED
        BY <3>3, <4>2
    <3> QED
      BY <3>3, <3>5, <3>6
  <2> QED
    BY <1>1, <2>1, <2>2, <2>3 DEF Jobs, Ops
<1> QED
  BY <1>2, <1>5 DEF OneDeployment, Image

LEMMA WholeLeave ==
  ASSUME TypeInv, WholeInv, RestoreInv, NEW c \in Commands,
         Release(c) \/ Crash(c)
  PROVE  WholeInv'
<1> USE DEF TypeInv, TypeOK
<1>1. /\ UNCHANGED disk /\ pc'[c] = "idle"
      /\ \A d \in Commands : d # c =>
           pc'[d] = pc[d] /\ job'[d] = job[d] /\ prompt'[d] = prompt[d]
  BY DEF Release, Crash, Goto
<1>2. ASSUME NEW d \in Commands PROVE PromptKeeps(d)'
  BY <1>1 DEF WholeInv, PromptKeeps
<1>3. ASSUME NEW d \in Commands, pc'[d] \in Working PROVE Sound(d)'
  <2>1. d # c /\ pc[d] \in Working /\ Sound(d) /\ pc'[d] = pc[d] /\ job'[d] = job[d]
    BY <1>1, <1>3 DEF WholeInv, Working
  <2>2. lock = d /\ pc[c] \notin Working
    BY <2>1, AtWork
  <2>3. Crash(c) /\ lock # c
    BY <2>1, <2>2 DEF Release, Working
  <2>4. suspect' = suspect
    BY <2>3 DEF Crash
  <2> QED
    BY <1>1, <2>1, <2>4 DEF Sound, Laid, Forward, disk
<1>4. ASSUME lock' = Free, ~suspect' PROVE OneDeployment(Image)'
  <2>1. UNCHANGED Image
    BY <1>1 DEF Image, disk
  <2>2. CASE Crash(c)
    BY <1>4, <2>1, <2>2 DEF Crash, WholeInv
  <2>3. CASE Release(c)
    <3>1. pc[c] \in Working /\ job[c] \in Jobs /\ Sound(c)
      BY <2>3, Inside DEF Release, Working
    <3>2. CASE ~suspect
      <4>1. ~job[c].fault /\ OneDeployment(job[c].snap)
        BY <3>1, <3>2 DEF Sound
      <4>2. CASE pc[c] = "failed"
        BY <2>1, <4>1, <4>2, RestoreImplies DEF FailureRestores
      <4>3. CASE pc[c] \in {"done", "unrecovered"}
        BY <2>1, <3>1, <3>2, <4>1, <4>3, LaidWhole DEF Forward, Publishing
      <4> QED
        BY <2>3, <4>2, <4>3 DEF Release
    <3>3. CASE Heals(c)
      BY <2>1, <3>1, <3>3, LaidWhole DEF Heals, Forward, Publishing
    <3> QED
      BY <1>4, <2>3, <3>2, <3>3 DEF Release
  <2> QED
    BY <2>2, <2>3
<1> QED
  BY <1>2, <1>3, <1>4 DEF WholeInv

(* A command takes the lock with a plan.                                   *)
LEMMA WholeEnter ==
  ASSUME TypeInv, WholeInv, NEW c \in Commands, NEW op, NEW target, NEW names,
         NEW stale, NEW sync, NEW where \in {"artifacts", "config", "finish"},
         Enter(c, op, target, names, stale, sync, where),
         PlannedFiles(job'[c]), PlannedTarget(job'[c]),
         where = "artifacts" \/ \A f \in names : artifact[f] = Content(target, f),
         where = "artifacts" \/ ~sync,
         where = "finish" => target = config /\ stale = {},
         op \in {"commit", "activate"} /\ ~sync =>
           active \in {Absent, Server(target)},
         op = "regenerate" => sync
  PROVE  WholeInv'
<1> USE DEF TypeInv, TypeOK
<1>1. /\ pc'[c] = where /\ lock = Free /\ lock' = c
      /\ job'[c] = [op |-> op, target |-> target, snap |-> Image,
                    names |-> names, stale |-> stale, todo |-> names,
                    sync |-> sync, fault |-> FALSE]
      /\ UNCHANGED <<config, artifact, active, prompt, suspect>>
      /\ \A d \in Commands : d # c => pc'[d] = pc[d] /\ job'[d] = job[d]
  BY DEF Enter, Goto, disk
<1>2. Laid(c)'
  BY <1>1 DEF Laid, Publishing, Image
<1>3. ~suspect => OneDeployment(Image)
  BY <1>1 DEF WholeInv
<1>4. Sound(c)'
  BY <1>1, <1>2, <1>3 DEF Sound, Image
<1>5. ASSUME NEW d \in Commands, pc'[d] \in Working PROVE Sound(d)'
  BY <1>1, <1>4, <1>5, ConstantsAssumption DEF Shape
<1>6. ASSUME NEW d \in Commands PROVE PromptKeeps(d)'
  BY <1>1 DEF WholeInv, PromptKeeps
<1>7. lock' # Free
  BY <1>1, ConstantsAssumption
<1> QED
  BY <1>5, <1>6, <1>7 DEF WholeInv

(* ... that takes no superseded file and no active file along.             *)
LEMMA WholeEnterSmall ==
  ASSUME TypeInv, WholeInv, NEW c \in Commands,
         NEW op \in {"initialize", "credential", "restart"}, NEW target,
         NEW names, NEW where \in {"artifacts", "config", "finish"},
         Enter(c, op, target, names, {}, FALSE, where),
         PlannedFiles(job'[c]), PlannedTarget(job'[c]),
         where = "artifacts" \/ names = {},
         where = "finish" => target = config
  PROVE  WholeInv'
<1> DEFINE none == {}
           no == FALSE
<1>1. Enter(c, op, target, names, none, no, where) /\ none = {} /\ ~no
  OBVIOUS
<1>2. where = "artifacts" \/ \A f \in names : artifact[f] = Content(target, f)
  OBVIOUS
<1> HIDE DEF none, no
<1> QED
  BY <1>1, <1>2, WholeEnter

(* apply_transaction_locked for each of its callers.                       *)
LEMMA WholeApply ==
  ASSUME TypeInv, WholeInv, NEW c \in Commands, config \in Configs,
         NEW op \in {"commit", "activate", "template"}, NEW target \in Configs,
         StartApply(c, op, target), target.secret = config.secret,
         op = "activate" => target = config,
         op = "template" => target.node = config.node
  PROVE  WholeInv'
<1> DEFINE clientsOnly == op = "template"
           names == IF clientsOnly THEN NamesOf[target.node] \cap TemplateFiles
                                   ELSE NamesOf[target.node]
           stale == StaleNames(names, clientsOnly)
           changed == \/ stale # {}
                      \/ \E f \in names : artifact[f] # Content(target, f)
           sync == /\ ~clientsOnly
                   /\ active # Absent
                   /\ changed \/ active # Server(target)
<1>1. PICK where \in {"artifacts", "config"} :
        /\ Enter(c, op, target, names, stale, sync, where)
        /\ where = "config" => ~changed /\ ~sync
  BY DEF StartApply
<1>2. job'[c] = [op |-> op, target |-> target, snap |-> Image, names |-> names,
                 stale |-> stale, todo |-> names, sync |-> sync, fault |-> FALSE]
  BY <1>1 DEF Enter, TypeInv, TypeOK
<1>3. PlannedFiles(job'[c])
  <2>1. names \cap stale = {}
    BY DEF StaleNames
  <2>2. op # "template" =>
          /\ names = NamesOf[target.node]
          /\ \A f \in Files \ (names \cup stale) : artifact[f] = Absent
    BY DEF StaleNames
  <2>3. op = "template" =>
          /\ names = NamesOf[target.node] \cap TemplateFiles
          /\ stale = {f \in TemplateFiles \ names : artifact[f] # Absent}
          /\ ~sync
    BY NamesAssumption DEF StaleNames
  <2>4. sync => active # Absent
    OBVIOUS
  <2> HIDE DEF names, stale, sync
  <2> QED
    BY <1>2, <2>1, <2>2, <2>3, <2>4 DEF PlannedFiles, Image
<1>4. PlannedTarget(job'[c])
  BY <1>2, ConstantsAssumption DEF PlannedTarget, Image
<1>5. where = "artifacts" \/ \A f \in names : artifact[f] = Content(target, f)
  BY <1>1
<1>6. op # "template" /\ ~sync => active \in {Absent, Server(target)}
  OBVIOUS
<1> HIDE DEF names, stale, changed, sync
<1> QED
  BY <1>1, <1>3, <1>4, <1>5, <1>6, WholeEnter

LEMMA WholeBegin ==
  ASSUME TypeInv, WholeInv, SecretInv, NEW c \in Commands, Begin(c)
  PROVE  WholeInv'
<1> USE NamesAssumption, ConstantsAssumption
<1>1. CASE OpenWizard(c) \/ CloseWizard(c)
  <2>1. /\ UNCHANGED <<disk, lock, job, suspect>>
        /\ \A d \in Commands : pc'[d] \in Working => pc'[d] = pc[d]
    BY <1>1 DEF OpenWizard, CloseWizard, Goto, Working, TypeInv, TypeOK
  <2>2. ASSUME NEW d \in Commands PROVE PromptKeeps(d)'
    <3>1. CASE d = c /\ OpenWizard(c)
      BY <3>1 DEF OpenWizard, PromptKeeps, TypeInv, TypeOK
    <3>2. CASE d # c \/ CloseWizard(c)
      BY <1>1, <3>2 DEF OpenWizard, CloseWizard, PromptKeeps, Goto, WholeInv,
         TypeInv, TypeOK
    <3> QED
      BY <1>1, <3>1, <3>2
  <2>3. ASSUME NEW d \in Commands, pc'[d] \in Working PROVE Sound(d)'
    BY <2>1, <2>3 DEF WholeInv, Sound, Laid, Forward, disk
  <2> QED
    BY <2>1, <2>2, <2>3 DEF WholeInv, Image, disk
<1>2. CASE ConfirmWizard(c)
  <2> DEFINE new == prompt[c].target
  <2>1. /\ new \in Configs /\ config = prompt[c].expected
        /\ new.secret = IF config = Absent THEN 0 ELSE config.secret
    BY <1>2 DEF ConfirmWizard, TypeInv, Shape, Prompts, WholeInv, PromptKeeps
  <2>2. CASE config # Absent
    <3>1. config \in Configs
      BY <2>2 DEF TypeInv, TypeOK
    <3>2. PICK op \in {"template", "commit"} :
            /\ StartApply(c, op, new)
            /\ op = "template" => new = [config EXCEPT !.template = new.template]
      BY <1>2, <2>2 DEF ConfirmWizard
    <3>3. op = "template" => new.node = config.node
      BY <3>1, <3>2 DEF Configs
    <3> HIDE DEF new
    <3> QED
      BY <2>1, <2>2, <3>1, <3>2, <3>3, WholeApply
  <2>3. CASE config = Absent
    <3> DEFINE names == NamesOf[new.node]
    <3>1. Enter(c, "initialize", new, names, {}, FALSE, "artifacts")
      BY <1>2, <2>3 DEF ConfirmWizard
    <3>2. job'[c] = [op |-> "initialize", target |-> new, snap |-> Image,
                     names |-> names, stale |-> {}, todo |-> names,
                     sync |-> FALSE, fault |-> FALSE]
      BY <3>1 DEF Enter, TypeInv, TypeOK
    <3>3. PlannedFiles(job'[c]) /\ PlannedTarget(job'[c])
      BY <2>1, <2>3, <3>2 DEF PlannedFiles, PlannedTarget, Image
    <3> HIDE DEF names, new
    <3> QED
      BY <3>1, <3>3, WholeEnterSmall
  <2> QED
    BY <2>2, <2>3
<1>3. CASE SwitchTemplate(c)
  <2>1. config \in Configs
    BY <1>3 DEF SwitchTemplate, TypeInv, TypeOK
  <2>2. PICK t \in Templates :
          StartApply(c, "template", [config EXCEPT !.template = t])
    BY <1>3 DEF SwitchTemplate
  <2>3. /\ [config EXCEPT !.template = t] \in Configs
        /\ [config EXCEPT !.template = t].secret = config.secret
        /\ [config EXCEPT !.template = t].node = config.node
    BY <2>1 DEF Configs
  <2> QED
    BY <2>1, <2>2, <2>3, WholeApply
<1>4. CASE Reapply(c)
  BY <1>4, WholeApply DEF Reapply, TypeInv, TypeOK
<1>5. CASE Regenerate(c)
  <2> DEFINE names == NamesOf[config.node]
             stale == StaleNames(names, FALSE)
  <2>1. Enter(c, "regenerate", config, names, stale, TRUE, "artifacts")
    BY <1>5 DEF Regenerate
  <2>2. job'[c] = [op |-> "regenerate", target |-> config, snap |-> Image,
                   names |-> names, stale |-> stale, todo |-> names,
                   sync |-> TRUE, fault |-> FALSE]
    BY <2>1 DEF Enter, TypeInv, TypeOK
  <2>3. /\ names \cap stale = {}
        /\ \A f \in Files \ (names \cup stale) : artifact[f] = Absent
    BY DEF StaleNames
  <2>4. config # Absent
    BY <1>5 DEF Regenerate
  <2> HIDE DEF stale
  <2>5. PlannedFiles(job'[c]) /\ PlannedTarget(job'[c])
    BY <2>2, <2>3, <2>4 DEF PlannedFiles, PlannedTarget, Image
  <2> HIDE DEF names
  <2> QED
    BY <2>1, <2>5, WholeEnter
<1>6. CASE RotateSecret(c)
  <2> DEFINE new == [config EXCEPT !.secret = issued + 1]
  <2>1. Enter(c, "credential", new, {}, {}, FALSE, "config")
    BY <1>6 DEF RotateSecret
  <2>2. config \in Configs /\ config # Absent /\ config.secret <= issued
    BY <1>6 DEF RotateSecret, SecretInv, TypeInv, TypeOK
  <2>3. /\ new.node = config.node /\ new.template = config.template
        /\ new.secret > config.secret
    BY <2>2 DEF Configs, TypeInv, TypeOK
  <2>4. job'[c] = [op |-> "credential", target |-> new, snap |-> Image,
                   names |-> {}, stale |-> {}, todo |-> {},
                   sync |-> FALSE, fault |-> FALSE]
    BY <2>1 DEF Enter, TypeInv, TypeOK
  <2> HIDE DEF new
  <2>5. PlannedFiles(job'[c]) /\ PlannedTarget(job'[c])
    BY <2>2, <2>3, <2>4 DEF PlannedFiles, PlannedTarget, Image
  <2> QED
    BY <2>1, <2>5, WholeEnterSmall
<1>7. CASE Restart(c)
  <2>1. Enter(c, "restart", config, {}, {}, FALSE, "finish") /\ config # Absent
    BY <1>7 DEF Restart
  <2>2. job'[c] = [op |-> "restart", target |-> config, snap |-> Image,
                   names |-> {}, stale |-> {}, todo |-> {},
                   sync |-> FALSE, fault |-> FALSE]
    BY <2>1 DEF Enter, TypeInv, TypeOK
  <2>3. PlannedFiles(job'[c]) /\ PlannedTarget(job'[c])
    BY <2>1, <2>2 DEF PlannedFiles, PlannedTarget, Image
  <2> QED
    BY <2>1, <2>3, WholeEnterSmall
<1> QED
  BY <1>1, <1>2, <1>3, <1>4, <1>5, <1>6, <1>7 DEF Begin

LEMMA WholeNext ==
  TypeInv /\ SecretInv /\ RestoreInv /\ WholeInv /\ [Next]_vars => WholeInv'
<1> SUFFICES ASSUME TypeInv, SecretInv, RestoreInv, WholeInv, [Next]_vars
             PROVE  WholeInv'
  OBVIOUS
<1>1. ASSUME UNCHANGED <<disk, lock, pc, prompt, job>>, suspect => suspect',
             lock = Free => suspect' = suspect
      PROVE  WholeInv'
  BY <1>1, AtWork DEF WholeInv, Sound, Laid, Forward, PromptKeeps, Image, disk
<1>2. CASE UNCHANGED vars
  BY <1>1, <1>2 DEF vars, disk
<1>3. ASSUME NEW c \in Commands, Begin(c) PROVE WholeInv'
  BY <1>3, WholeBegin
<1>4. ASSUME NEW c \in Commands, Step(c) PROVE WholeInv'
  BY <1>4, WholeWriteArtifact, WholePrune, WholeUndoes, WholeWriteActive,
     WholeWriteConfig, WholeWriteFails, WholePruneFails, WholeFinish, WholeLeave
     DEF Step
<1>5. ASSUME NEW c \in Commands, Crash(c) PROVE WholeInv'
  BY <1>5, WholeLeave
<1>6. CASE ServiceRestarts
  <2>1. lock = Free => suspect' = suspect
    BY <1>6 DEF ServiceRestarts, TypeInv, TypeOK
  <2> QED
    BY <1>1, <1>6, <2>1 DEF ServiceRestarts
<1> QED
  BY <1>2, <1>3, <1>4, <1>5, <1>6 DEF Next

(* What stands on the whole of it.                                         *)
LEMMA WholeAlways == Spec => [](TypeInv /\ SecretInv /\ RestoreInv /\ WholeInv)
BY TypeInit, TypeNext, SecretInit, SecretNext, RestoreInit, RestoreNext,
   WholeInit, WholeNext, PTL DEF Spec

(* A commit or a re-apply that ends without a skipped failure has put the  *)
(* whole deployment of its configuration on disk, whatever an earlier      *)
(* crash or failed recovery left there (apply_transaction_locked).         *)
THEOREM PublicationsHeal == Spec => []PublicationHeals
<1>1. ASSUME TypeInv, WholeInv, NEW c \in Commands, Heals(c)
      PROVE  config = job[c].target /\ Whole
  <2>1. /\ pc[c] \in Working /\ Forward(c) /\ ~job[c].fault
        /\ pc[c] \notin Publishing \cup {"prune"}
        /\ job[c].op \in {"commit", "activate", "regenerate"}
    BY <1>1 DEF Heals, Forward, Working, Publishing
  <2>2. config = job[c].target /\ config # Absent /\ OneDeployment(Image)
    BY <1>1, <2>1, LaidWhole
  <2>3. artifact = Generated(config)
    BY <1>1, <2>2 DEF OneDeployment, Image, Generated, TypeInv, TypeOK
  <2> QED
    BY <2>2, <2>3 DEF OneDeployment, Image, Whole
<1>2. TypeInv /\ WholeInv => PublicationHeals
  BY <1>1 DEF PublicationHeals
<1> QED
  BY <1>2, WholeAlways, PTL

-----------------------------------------------------------------------------
(* The running services agree with a file set.                             *)
Serving(img) ==
  /\ sbctl # Down => img.config # Absent /\ SameService(sbctl, img.config)
  /\ singbox # Down => singbox = img.active

Stopped == sbctl = Down /\ singbox = Down

(* Phases in which the services may run a mixture of old and new files.    *)
Restoring == {"restoreArtifacts", "restoreActive", "restoreConfig", "reactivate"}

Unsettled(c) == pc[c] \in Restoring \cup {"done"} /\ Restarts(job[c].op)

(* What runs while a command works: what ran before, until it restarts the *)
(* services.                                                               *)
Runs(c) ==
  LET j == job[c] IN
  /\ j.snap.active = Absent =>
       Stopped /\ (j.op # "regenerate" => active = Absent)
  /\ pc[c] = "done" /\ Restarts(j.op) => Serving(Image)
  /\ ~suspect /\ ~Unsettled(c) => Serving(j.snap)
  /\ pc[c] \in Restoring => j.op # "regenerate"

ServeInv ==
  /\ active = Absent => Stopped
  /\ lock = Free /\ ~suspect => Serving(Image)
  /\ \A c \in Commands : pc[c] \in Working => Runs(c)

LEMMA ServeInit == Init => ServeInv
<1> SUFFICES ASSUME Init PROVE ServeInv
  OBVIOUS
<1>1. active = Absent => Stopped
  BY DEF Init, Stopped
<1>2. Serving(Image)
  <2>1. active # Absent => config # Absent
    BY ConstantsAssumption DEF Init, Configs
  <2> QED
    BY <2>1 DEF Init, Serving, Image, SameService
<1> QED
  BY <1>1, <1>2 DEF Init, ServeInv, Working

LEMMA ServeOwn ==
  ASSUME TypeInv, NEW c \in Commands, pc[c] \in Working,
         NEW where \in Working, Goto(c, where), UNCHANGED lock,
         (active = Absent => Stopped)', Runs(c)'
  PROVE  ServeInv'
<1>1. lock = c /\ lock' # Free
  BY AtWork, ConstantsAssumption
<1>2. ASSUME NEW d \in Commands, pc'[d] \in Working PROVE Runs(d)'
  BY <1>2, AtWork DEF Goto, TypeInv, TypeOK
<1> QED
  BY <1>1, <1>2 DEF ServeInv

(* Steps that leave the services alone.                                    *)
LEMMA ServeStill ==
  ASSUME TypeInv, ServeInv, NEW c \in Commands, pc[c] \in Working, JobStep(c),
         NEW where \in Working, Goto(c, where), UNCHANGED <<lock, service>>,
         suspect' \/ ~suspect,
         \/ active' \in {active, job[c].snap.active}
         \/ /\ active' # Absent
            /\ job[c].snap.active # Absent \/ job[c].op = "regenerate",
         where = "done" => ~Restarts(job[c].op),
         suspect' \/ ~Unsettled(c) \/ where \in Restoring,
         where \in Restoring => job[c].op # "regenerate"
  PROVE  ServeInv'
<1>1. /\ pc'[c] = where /\ job'[c].op = job[c].op /\ job'[c].snap = job[c].snap
      /\ UNCHANGED <<sbctl, singbox>>
  BY DEF Goto, TypeInv, TypeOK, JobStep, service
<1>2. Runs(c) /\ (active = Absent => Stopped)
  BY DEF ServeInv
<1>3. active' = Absent => Stopped
  BY <1>2 DEF Runs
<1>4. ~suspect' /\ ~Unsettled(c)' => ~suspect /\ ~Unsettled(c)
  BY <1>1 DEF Unsettled
<1>5. Runs(c)'
  BY <1>1, <1>2, <1>4 DEF Runs, Serving, Stopped
<1> QED
  BY <1>1, <1>3, <1>5, ServeOwn DEF Stopped

(* The way forth and back up to the services.                              *)
LEMMA ServeWrites ==
  ASSUME TypeInv, WholeInv, ServeInv, NEW c \in Commands,
         \/ \E f \in Files : WriteArtifact(c, f) \/ Prune(c, f)
                             \/ UndoArtifact(c, f) \/ RestoreArtifact(c, f)
         \/ WriteActive(c) \/ WriteConfig(c) \/ WriteFails(c) \/ PruneFails(c)
         \/ UndoActive(c) \/ RestoreActive(c) \/ RestoreConfig(c)
         \/ RestoreFails(c)
  PROVE  ServeInv'
<1> USE DEF TypeInv, TypeOK
<1>1. ASSUME NEW f \in Files, WriteArtifact(c, f) PROVE ServeInv'
  <2>1. /\ pc[c] \in Working /\ JobStep(c) /\ ~Unsettled(c)
    BY <1>1, TypeWriteArtifact
       DEF WriteArtifact, Working, Unsettled, Restoring
  <2>2. PICK where \in {"artifacts", "active", "config"} : Goto(c, where)
    BY <1>1, <2>1, Stays DEF WriteArtifact, AfterArtifacts
  <2> QED
    BY <1>1, <2>1, <2>2, ServeStill DEF WriteArtifact, Working, Restoring
<1>2. ASSUME NEW f \in Files, Prune(c, f) PROVE ServeInv'
  <2>1. /\ pc[c] \in Working /\ JobStep(c) /\ ~Unsettled(c)
    BY <1>2, TypePrune DEF Prune, Working, Unsettled, Restoring
  <2>2. PICK where \in {"prune", "finish"} : Goto(c, where)
    BY <1>2, <2>1, Stays DEF Prune
  <2> QED
    BY <1>2, <2>1, <2>2, ServeStill DEF Prune, Working, Restoring
<1>3. ASSUME NEW f \in Files, UndoArtifact(c, f) PROVE ServeInv'
  <2>1. /\ pc[c] \in Working /\ JobStep(c) /\ ~Unsettled(c)
    BY <1>3, TypeUndoArtifact DEF UndoArtifact, Working, Unsettled, Restoring
  <2>2. PICK where \in {"undoArtifacts", "undoActive", "failed"} : Goto(c, where)
    BY <1>3, <2>1, Stays DEF UndoArtifact
  <2>3. suspect' \/ ~suspect
    BY <1>3 DEF UndoArtifact, UndoStep
  <2> QED
    BY <1>3, <2>1, <2>2, <2>3, ServeStill DEF UndoArtifact, Working, Restoring
<1>4. ASSUME NEW f \in Files, RestoreArtifact(c, f) PROVE ServeInv'
  <2>1. /\ pc[c] \in Working /\ JobStep(c) /\ pc[c] \in Restoring
    BY <1>4, TypeRestoreArtifact DEF RestoreArtifact, Working, Restoring
  <2>2. PICK where \in {"restoreArtifacts", "restoreActive"} : Goto(c, where)
    BY <1>4, <2>1, Stays DEF RestoreArtifact
  <2>3. /\ suspect' \/ ~suspect
        /\ job[c].op # "regenerate"
    BY <1>4, <2>1 DEF RestoreArtifact, ServeInv, Runs
  <2> QED
    BY <1>4, <2>1, <2>2, <2>3, ServeStill DEF RestoreArtifact, Working, Restoring
<1>5. CASE WriteActive(c)
  <2>1. /\ pc[c] \in Working /\ JobStep(c) /\ ~Unsettled(c) /\ pc[c] = "active"
        /\ job[c] \in Jobs
    BY <1>5, AtWork, TypeWriteActive
       DEF WriteActive, Working, Unsettled, Restoring
  <2>2. PICK where \in {"prune", "finish", "config"} : Goto(c, where)
    BY <1>5 DEF WriteActive, Phase, AfterActive, PruneOrFinish
  <2>3. active' # Absent
    BY <1>5, <2>1, ContentTyped, ConstantsAssumption
       DEF WriteActive, Server, Jobs
  <2>4. job[c].sync
    BY <2>1, Inside DEF Forward, Publishing, Laid
  <2>5. job[c].snap.active # Absent \/ job[c].op = "regenerate"
    BY <2>1, <2>4, Inside DEF PlannedFiles, Jobs, Ops
  <2> QED
    BY <1>5, <2>1, <2>2, <2>3, <2>5, ServeStill
       DEF WriteActive, Working, Restoring
<1>6. CASE WriteConfig(c)
  <2>1. /\ pc[c] \in Working /\ JobStep(c) /\ ~Unsettled(c)
    BY <1>6, TypeWriteConfig DEF WriteConfig, Working, Unsettled, Restoring
  <2>2. PICK where \in {"prune", "finish", "done"} :
          Goto(c, where) /\ (where = "done" => ~Restarts(job[c].op))
    BY <1>6 DEF WriteConfig, Phase, AfterConfig, PruneOrFinish, Restarts
  <2> QED
    BY <1>6, <2>1, <2>2, ServeStill DEF WriteConfig, Working, Restoring
<1>7. CASE WriteFails(c)
  <2>1. /\ pc[c] \in Working /\ JobStep(c) /\ ~Unsettled(c)
    BY <1>7, TypeWriteFails DEF WriteFails, Working, Unsettled, Restoring
  <2>2. PICK where \in {"unrecovered", "restoreConfig", "undoArtifacts"} :
          /\ Goto(c, where)
          /\ where = "restoreConfig" => job[c].op = "credential"
          /\ suspect' \/ ~suspect
    BY <1>7 DEF WriteFails
  <2> QED
    BY <1>7, <2>1, <2>2, ServeStill DEF WriteFails, Working, Restoring, disk
<1>8. CASE PruneFails(c)
  <2>1. /\ pc[c] \in Working /\ JobStep(c) /\ ~Unsettled(c)
    BY <1>8, TypePruneFails DEF PruneFails, Working, Unsettled, Restoring
  <2> QED
    BY <1>8, <2>1, ServeStill DEF PruneFails, Working, Restoring, disk
<1>9. CASE UndoActive(c)
  <2>1. /\ pc[c] \in Working /\ JobStep(c) /\ ~Unsettled(c)
    BY <1>9, TypeUndoActive DEF UndoActive, Working, Unsettled, Restoring
  <2>2. suspect' \/ ~suspect
    BY <1>9 DEF UndoActive, UndoStep
  <2> QED
    BY <1>9, <2>1, <2>2, ServeStill DEF UndoActive, Working, Restoring
<1>10. CASE RestoreActive(c) \/ RestoreConfig(c)
  <2>1. /\ pc[c] \in Working /\ JobStep(c) /\ pc[c] \in Restoring
    BY <1>10, TypeRestoreActive, TypeRestoreConfig
       DEF RestoreActive, RestoreConfig, Working, Restoring
  <2>2. PICK where \in {"restoreConfig", "reactivate"} : Goto(c, where)
    BY <1>10 DEF RestoreActive, RestoreConfig
  <2>3. /\ job[c].op # "regenerate" /\ suspect' = suspect
        /\ active' \in {active, job[c].snap.active}
        /\ UNCHANGED <<lock, service>>
    BY <1>10, <2>1 DEF RestoreActive, RestoreConfig, ServeInv, Runs
  <2> QED
    BY <2>1, <2>2, <2>3, ServeStill DEF Working, Restoring
<1>11. CASE RestoreFails(c)
  <2>1. /\ pc[c] \in Working /\ JobStep(c)
    BY <1>11, TypeRestoreFails DEF RestoreFails, Working
  <2> QED
    BY <1>11, <2>1, ServeStill DEF RestoreFails, Working, Restoring, disk
<1> QED
  BY <1>1, <1>2, <1>3, <1>4, <1>5, <1>6, <1>7, <1>8, <1>9, <1>10, <1>11

(* A command that has restarted the services has them on its files.        *)
LEMMA ServeLoads ==
  ASSUME TypeInv, ServicesLoad, config \in Configs, UNCHANGED disk
  PROVE  Serving(Image)' /\ active # Absent
BY ConstantsAssumption
   DEF ServicesLoad, Serving, Image, SameService, disk

LEMMA ServeFinish ==
  ASSUME TypeInv, WholeInv, ServeInv, NEW c \in Commands, Finish(c)
  PROVE  ServeInv'
<1>1. /\ pc[c] \in Working /\ JobStep(c) /\ ~Unsettled(c)
      /\ job[c].op # "initialize" /\ Goto(c, "done") /\ pc'[c] = "done"
      /\ job' = job
  BY AtWork, TypeFinish
     DEF Finish, Working, Unsettled, Restoring, InitializePhases, Goto, TypeInv,
     TypeOK
<1>2. config \in Configs /\ Runs(c) /\ (active = Absent => Stopped)
  BY <1>1, AtWork DEF ServeInv
<1>3. CASE ~Restarts(job[c].op)
  BY <1>1, <1>3, ServeStill DEF Finish, Working, Restoring, Restarts, disk
<1>4. CASE Restarts(job[c].op)
  <2>1. Serving(Image)' /\ (active = Absent => UNCHANGED service /\ Stopped)
    <3>1. CASE ServicesLoad
      BY <1>2, <3>1, ServeLoads DEF Finish
    <3>2. CASE active = Absent /\ UNCHANGED service
      BY <1>2, <3>2 DEF Finish, Serving, Stopped, service
    <3> QED
      BY <1>4, <3>1, <3>2 DEF Finish
  <2>2. (active = Absent => Stopped)'
    BY <2>1 DEF Finish, Stopped, service, disk
  <2>3. Runs(c)'
    BY <1>1, <1>2, <1>4, <2>1, <2>2
       DEF Finish, Runs, Unsettled, Restoring, Restarts, disk
  <2> QED
    BY <1>1, <2>2, <2>3, ServeOwn DEF Finish, Working
<1> QED
  BY <1>3, <1>4

LEMMA ServeFinishFails ==
  ASSUME TypeInv, WholeInv, ServeInv, NEW c \in Commands, FinishFails(c)
  PROVE  ServeInv'
<1>1. /\ pc[c] \in Working /\ JobStep(c) /\ ~Unsettled(c) /\ job[c] \in Jobs
      /\ job[c].op # "initialize" /\ pc[c] = "finish"
  BY AtWork, TypeFinishFails
     DEF FinishFails, Working, Unsettled, Restoring, InitializePhases
<1>2. /\ config \in Configs /\ Runs(c) /\ (active = Absent => Stopped)
      /\ Laid(c) /\ PlannedFiles(job[c]) /\ PlannedTarget(job[c])
  BY <1>1, AtWork, Inside DEF ServeInv, Forward
<1>3. PICK where \in {"restoreConfig", "unrecovered", "failed",
                      "restoreArtifacts"} :
        /\ Goto(c, where)
        /\ where = "restoreConfig" => job[c].op = "credential"
        /\ where = "failed" => job[c].op = "restart"
        /\ where = "unrecovered" => job[c].op = "regenerate"
        /\ where = "restoreArtifacts" =>
             job[c].op \notin {"credential", "regenerate", "restart"}
  BY DEF FinishFails
<1>4. /\ UNCHANGED <<disk, lock, suspect>>
  BY DEF FinishFails
<1>5. CASE UNCHANGED service /\ where # "failed"
  BY <1>1, <1>3, <1>4, <1>5, ServeStill DEF Working, Restoring, disk
<1>6. CASE Restarts(job[c].op)
  <2>1. /\ pc'[c] = where /\ job'[c].op = job[c].op
        /\ job'[c].snap = job[c].snap /\ ServicesFail
        /\ UNCHANGED <<config, artifact, active>>
    BY <1>1, <1>3, <1>4, <1>6
       DEF FinishFails, Goto, TypeInv, TypeOK, JobStep, disk
  <2>2. active = Absent => UNCHANGED service /\ Stopped
    BY <1>2, <2>1 DEF ServicesFail
  <2>3. (active = Absent => Stopped)'
    BY <2>1, <2>2 DEF Stopped, service
  <2>4. where = "failed" =>
          config = job[c].snap.config /\ active = job[c].snap.active
    BY <1>1, <1>2, <1>3 DEF Laid, PlannedFiles, PlannedTarget, Publishing
  <2>5. ~suspect /\ where = "failed" => Serving(job[c].snap)'
    <3> SUFFICES ASSUME ~suspect, where = "failed" PROVE Serving(job[c].snap)'
      OBVIOUS
    <3>1. Serving(job[c].snap)
      BY <1>1, <1>2 DEF Runs
    <3>2. sbctl' \in {sbctl, config, Down} /\ singbox' \in {singbox, active, Down}
      BY <2>1 DEF ServicesFail, service
    <3> QED
      BY <1>2, <2>1, <2>4, <3>1, <3>2, ConstantsAssumption
         DEF Serving, SameService
  <2>6. where \in Restoring \cup {"failed"}
    BY <1>3, <1>6 DEF Restarts, Restoring
  <2>7. Runs(c)'
    BY <1>2, <1>3, <1>4, <1>6, <2>1, <2>3, <2>5, <2>6
       DEF Runs, Unsettled, Restoring
  <2> QED
    BY <1>1, <1>3, <1>4, <2>3, <2>7, ServeOwn DEF Working
<1> QED
  BY <1>3, <1>5, <1>6 DEF FinishFails, Restarts

LEMMA ServeReactivate ==
  ASSUME TypeInv, TypeInv', RestoreInv', WholeInv, WholeInv', ServeInv,
         NEW c \in Commands, Reactivate(c)
  PROVE  ServeInv'
<1>1. /\ pc[c] \in Working /\ JobStep(c) /\ pc[c] \in Restoring
      /\ job[c].op # "initialize" /\ Goto(c, "failed") /\ pc'[c] = "failed"
      /\ job' = job
  BY AtWork, TypeReactivate
     DEF Reactivate, Working, Restoring, InitializePhases, Goto, TypeInv, TypeOK
<1>2. config \in Configs /\ Runs(c) /\ (active = Absent => Stopped)
  BY <1>1, AtWork DEF ServeInv
<1>3. CASE job[c].op = "template"
  BY <1>1, <1>3, ServeStill
     DEF Reactivate, Working, Restoring, Unsettled, Restarts, disk
<1>4. CASE job[c].op # "template"
  <2>1. Serving(Image)' /\ (active = Absent => UNCHANGED service /\ Stopped)
    <3>1. CASE ServicesLoad
      BY <1>2, <3>1, ServeLoads DEF Reactivate
    <3>2. CASE active = Absent /\ UNCHANGED service
      BY <1>2, <3>2 DEF Reactivate, Serving, Stopped, service
    <3> QED
      BY <1>4, <3>1, <3>2 DEF Reactivate
  <2>2. (active = Absent => Stopped)'
    BY <2>1 DEF Reactivate, Stopped, service, disk
  <2>3. ~suspect' => Image' = job'[c].snap
    <3>1. FailureRestores'
      BY RestoreImplies, PTL
    <3>2. ~suspect' => ~job'[c].fault
      BY <1>1 DEF WholeInv, Sound, Working
    <3> QED
      BY <1>1, <3>1, <3>2 DEF FailureRestores
  <2>4. Runs(c)'
    BY <1>1, <1>2, <2>1, <2>2, <2>3
       DEF Reactivate, Runs, Unsettled, Restoring, Serving, Image, disk
  <2> QED
    BY <1>1, <2>2, <2>4, ServeOwn DEF Reactivate, Working
<1> QED
  BY <1>3, <1>4

LEMMA ServeReactivateFails ==
  ASSUME TypeInv, ServeInv, NEW c \in Commands, ReactivateFails(c)
  PROVE  ServeInv'
<1>1. /\ pc[c] \in Working /\ pc[c] \in Restoring /\ Goto(c, "unrecovered")
      /\ pc'[c] = "unrecovered" /\ job' = job /\ suspect'
      /\ UNCHANGED disk /\ ServicesFail
  BY DEF ReactivateFails, Working, Restoring, Goto, TypeInv, TypeOK
<1>2. Runs(c) /\ (active = Absent => Stopped) /\ job[c].op # "regenerate"
  BY <1>1 DEF ServeInv, Runs
<1>3. active = Absent => UNCHANGED service /\ Stopped
  BY <1>1, <1>2 DEF ServicesFail
<1>4. (active = Absent => Stopped)'
  BY <1>1, <1>3 DEF Stopped, service, disk
<1>5. Runs(c)'
  BY <1>1, <1>2, <1>4 DEF Runs, Restoring, disk
<1> QED
  BY <1>1, <1>4, <1>5, ServeOwn DEF ReactivateFails, Working

(* Every command that takes the lock takes it on the files of the moment.  *)
LEMMA Entered ==
  ASSUME TypeInv, NEW c \in Commands, Begin(c),
         ~OpenWizard(c), ~CloseWizard(c)
  PROVE  /\ lock = Free /\ lock' = c /\ UNCHANGED <<disk, service, suspect>>
         /\ pc'[c] \in {"artifacts", "config", "finish"}
         /\ job'[c].snap = Image
         /\ \A d \in Commands : d # c => pc'[d] = pc[d]
<1> DEFINE Enters ==
      \E op, target, names, stale, sync :
        \E where \in {"artifacts", "config", "finish"} :
          Enter(c, op, target, names, stale, sync, where)
<1>1. Enters
  <2>1. ASSUME NEW op, NEW target, StartApply(c, op, target)
        PROVE  Enters
    BY <2>1 DEF StartApply
  <2>2. CASE ConfirmWizard(c)
    BY <2>1, <2>2 DEF ConfirmWizard
  <2>3. CASE SwitchTemplate(c)
    BY <2>1, <2>3 DEF SwitchTemplate
  <2>4. CASE Reapply(c)
    BY <2>1, <2>4 DEF Reapply
  <2>5. CASE Regenerate(c) \/ RotateSecret(c) \/ Restart(c)
    BY <2>5 DEF Regenerate, RotateSecret, Restart
  <2> QED
    BY <2>2, <2>3, <2>4, <2>5 DEF Begin
<1> QED
  BY <1>1 DEF Enter, Goto, TypeInv, TypeOK

LEMMA ServeBegin ==
  ASSUME TypeInv, ServeInv, NEW c \in Commands, Begin(c)
  PROVE  ServeInv'
<1>1. CASE OpenWizard(c) \/ CloseWizard(c)
  <2>1. /\ UNCHANGED <<disk, lock, service, job, suspect>>
        /\ \A d \in Commands : pc'[d] \in Working => pc'[d] = pc[d]
    BY <1>1 DEF OpenWizard, CloseWizard, Goto, Working, TypeInv, TypeOK
  <2> QED
    BY <2>1 DEF ServeInv, Runs, Unsettled, Serving, Stopped, Image, disk, service
<1>2. CASE ~OpenWizard(c) /\ ~CloseWizard(c)
  <2>1. /\ lock = Free /\ lock' = c /\ UNCHANGED <<disk, service, suspect>>
        /\ pc'[c] \in {"artifacts", "config", "finish"}
        /\ job'[c].snap = Image
        /\ \A d \in Commands : d # c => pc'[d] = pc[d]
    BY <1>2, Entered
  <2>2. Runs(c)'
    BY <2>1 DEF ServeInv, Runs, Unsettled, Restoring, Serving, Stopped, Image,
       disk, service
  <2>3. ASSUME NEW d \in Commands, pc'[d] \in Working PROVE Runs(d)'
    <3>1. d = c
      BY <2>1, <2>3, ConstantsAssumption DEF TypeInv, Shape
    <3> QED
      BY <2>2, <3>1
  <2>4. lock' # Free /\ (active = Absent => Stopped)'
    BY <2>1, ConstantsAssumption DEF ServeInv, Stopped, disk, service
  <2> QED
    BY <2>3, <2>4 DEF ServeInv
<1> QED
  BY <1>1, <1>2

(* Whatever runs when the lock is dropped runs the files on disk.          *)
LEMMA ServeLeave ==
  ASSUME TypeInv, WholeInv, RestoreInv, ServeInv, NEW c \in Commands,
         Release(c) \/ Crash(c)
  PROVE  ServeInv'
<1> USE DEF TypeInv, TypeOK
<1>1. /\ UNCHANGED <<disk, service>> /\ pc'[c] = "idle"
      /\ \A d \in Commands : d # c => pc'[d] = pc[d] /\ job'[d] = job[d]
  BY DEF Release, Crash, Goto
<1>2. (active = Absent => Stopped)'
  BY <1>1 DEF ServeInv, Stopped, disk, service
<1>3. ASSUME NEW d \in Commands, pc'[d] \in Working PROVE Runs(d)'
  <2>1. d # c /\ pc[d] \in Working /\ Runs(d) /\ pc'[d] = pc[d] /\ job'[d] = job[d]
    BY <1>1, <1>3 DEF ServeInv, Working
  <2>2. lock = d /\ pc[c] \notin Working
    BY <2>1, AtWork
  <2>3. Crash(c) /\ lock # c
    BY <2>1, <2>2 DEF Release, Working
  <2>4. suspect' = suspect
    BY <2>3 DEF Crash
  <2> QED
    BY <1>1, <2>1, <2>4
       DEF Runs, Unsettled, Serving, Stopped, Image, disk, service
<1>4. ASSUME lock' = Free, ~suspect' PROVE Serving(Image)
  <2>1. CASE Crash(c)
    BY <1>4, <2>1 DEF Crash, ServeInv
  <2>2. CASE Release(c)
    <3>1. /\ pc[c] \in Working /\ job[c] \in Jobs /\ Sound(c) /\ Runs(c)
          /\ PlannedFiles(job[c]) /\ PlannedTarget(job[c])
      BY <2>2, Inside DEF Release, Working, ServeInv
    <3>2. CASE pc[c] = "done" /\ Restarts(job[c].op)
      BY <3>1, <3>2 DEF Runs
    <3>3. CASE ~(pc[c] = "done" /\ Restarts(job[c].op))
      <4>1. ~suspect
        BY <1>4, <2>2, <3>3 DEF Release, Heals, Restarts
      <4>2. /\ ~job[c].fault /\ OneDeployment(job[c].snap)
            /\ Serving(job[c].snap)
        BY <2>2, <3>1, <3>3, <4>1 DEF Sound, Runs, Unsettled, Restoring, Release
      <4>3. CASE pc[c] = "failed"
        BY <4>2, <4>3, RestoreImplies DEF FailureRestores
      <4>4. CASE pc[c] # "failed"
        <5>1. /\ job[c].op \in {"template", "regenerate", "initialize"}
              /\ Laid(c) /\ pc[c] \in {"done", "unrecovered"}
          BY <2>2, <3>1, <3>3, <4>1, <4>4
             DEF Release, Sound, Forward, Restarts, Jobs, Ops
        <5>2. config = job[c].target
          BY <5>1 DEF Laid, Publishing
        <5>3. CASE job[c].op = "template"
          <6>1. active = job[c].snap.active
            BY <3>1, <5>1, <5>3 DEF Laid, PlannedFiles
          <6>2. /\ config # Absent
                /\ config.node = job[c].snap.config.node
                /\ config.secret = job[c].snap.config.secret
            BY <3>1, <5>2, <5>3, ConstantsAssumption DEF PlannedTarget, Jobs
          <6> QED
            BY <4>2, <6>1, <6>2 DEF Serving, SameService, Image
        <5>4. CASE job[c].op = "regenerate"
          <6>1. active = Server(job[c].target) /\ config = job[c].snap.config
            BY <3>1, <5>1, <5>2, <5>4 DEF Laid, PlannedTarget, Publishing
          <6>2. CASE job[c].snap.active = Absent
            BY <3>1, <6>2 DEF Runs, Stopped, Serving
          <6>3. CASE job[c].snap.active # Absent
            <7>1. job[c].snap.config # Absent
              BY <4>2, <6>3 DEF OneDeployment
            <7>2. active = job[c].snap.active
              BY <4>2, <5>2, <6>1, <6>3, <7>1 DEF OneDeployment
            <7> QED
              BY <4>2, <6>1, <7>2 DEF Serving, Image
          <6> QED
            BY <6>2, <6>3
        <5>5. CASE job[c].op = "initialize"
          <6>1. job[c].snap.active = Absent
            BY <3>1, <4>2, <5>5 DEF PlannedTarget, OneDeployment
          <6> QED
            BY <3>1, <6>1 DEF Runs, Stopped, Serving
        <5> QED
          BY <5>1, <5>3, <5>4, <5>5
      <4> QED
        BY <4>3, <4>4
    <3> QED
      BY <3>2, <3>3
  <2> QED
    BY <2>1, <2>2
<1>5. lock' = Free /\ ~suspect' => Serving(Image)'
  BY <1>1, <1>4 DEF Serving, Image, disk, service
<1> QED
  BY <1>2, <1>3, <1>5 DEF ServeInv

LEMMA ServeRestarts ==
  ASSUME TypeInv, ServeInv, ServiceRestarts
  PROVE  ServeInv'
<1>1. /\ UNCHANGED <<config, artifact, active, lock, pc, job>>
      /\ active # Absent /\ config # Absent /\ ~Stopped
      /\ suspect' = (suspect \/ lock # Free)
      /\ sbctl' \in {sbctl, config} /\ singbox' \in {singbox, active}
  BY DEF ServiceRestarts, Stopped, disk
<1>3. config # Absent /\ (Serving(Image) => Serving(Image)')
  BY <1>1 DEF Serving, Image, SameService
<1>4. ASSUME NEW d \in Commands, pc'[d] \in Working PROVE Runs(d)'
  <2>1. Runs(d) /\ lock # Free
    BY <1>1, <1>4, AtWork, ConstantsAssumption DEF ServeInv
  <2>2. job[d].snap.active # Absent /\ suspect'
    BY <1>1, <2>1 DEF Runs
  <2> QED
    BY <1>1, <1>3, <2>1, <2>2 DEF Runs
<1>5. lock' = Free /\ ~suspect' => Serving(Image)'
  BY <1>1, <1>3 DEF ServeInv
<1> QED
  BY <1>1, <1>4, <1>5 DEF ServeInv

LEMMA ServeNext ==
  /\ TypeInv /\ TypeInv' /\ RestoreInv /\ RestoreInv'
  /\ WholeInv /\ WholeInv' /\ ServeInv /\ [Next]_vars
  => ServeInv'
<1> SUFFICES ASSUME TypeInv, TypeInv', RestoreInv, RestoreInv', WholeInv,
                    WholeInv', ServeInv, [Next]_vars
             PROVE  ServeInv'
  OBVIOUS
<1>1. CASE UNCHANGED vars
  BY <1>1 DEF vars, ServeInv, Runs, Unsettled, Serving, Stopped, Image
<1>2. ASSUME NEW c \in Commands, Begin(c) PROVE ServeInv'
  BY <1>2, ServeBegin
<1>3. ASSUME NEW c \in Commands, Step(c) PROVE ServeInv'
  BY <1>3, ServeWrites, ServeFinish, ServeFinishFails, ServeReactivate,
     ServeReactivateFails, ServeLeave DEF Step
<1>4. ASSUME NEW c \in Commands, Crash(c) PROVE ServeInv'
  BY <1>4, ServeLeave
<1>5. CASE ServiceRestarts
  BY <1>5, ServeRestarts
<1> QED
  BY <1>1, <1>2, <1>3, <1>4, <1>5 DEF Next

(* With nobody inside, and no crash or failed recovery since the last      *)
(* complete publication, the disk holds the complete output of exactly its *)
(* configuration and whatever is running runs it, through any interleaving *)
(* of wizards, rotations, regenerations, restarts and their rollbacks.     *)
THEOREM QuietHostIsWhole == Spec => []QuiescentWhole
<1>1. ASSUME TypeInv, WholeInv, ServeInv PROVE QuiescentWhole
  <2> SUFFICES ASSUME lock = Free, ~suspect, config # Absent
               PROVE  /\ Whole
                      /\ sbctl # Down => SameService(sbctl, config)
                      /\ singbox # Down => singbox = active
    BY DEF QuiescentWhole
  <2>1. OneDeployment(Image) /\ Serving(Image)
    BY <1>1 DEF WholeInv, ServeInv
  <2>2. artifact = Generated(config)
    BY <1>1, <2>1 DEF OneDeployment, Image, Generated, TypeInv, TypeOK
  <2> QED
    BY <2>1, <2>2 DEF OneDeployment, Serving, Image, Whole
<1>2. TypeInv /\ WholeInv /\ ServeInv => QuiescentWhole
  BY <1>1
<1>3. Spec => []ServeInv
  BY WholeAlways, ServeInit, ServeNext, PTL DEF Spec
<1> QED
  BY <1>2, <1>3, WholeAlways, PTL

-----------------------------------------------------------------------------
(* What an observer sees between commands.                                 *)
Seen == IF lock = Free THEN Image ELSE job[lock].snap

LEMMA SeenWhole ==
  ASSUME NEW img \in Images, OneDeployment(img)
  PROVE  /\ img.config = Absent => img = Atomic!Nothing
         /\ img.config # Absent => img \in Atomic!WholeImages(img.config)
<1>1. ASSUME img.config = Absent PROVE img = Atomic!Nothing
  BY <1>1 DEF Images, OneDeployment, Atomic!Nothing
<1>2. ASSUME img.config # Absent PROVE img \in Atomic!WholeImages(img.config)
  <2>1. img.artifact = [f \in Files |->
          IF f \in NamesOf[img.config.node] THEN Atomic!Content(img.config, f)
                                            ELSE Absent]
    BY <1>2 DEF Images, OneDeployment, Generated, Content, Atomic!Content
  <2>2. img.active \in {Absent, Atomic!Content(img.config, ServerFile)}
    BY <1>2 DEF OneDeployment, Server, Content, Atomic!Content
  <2> QED
    BY <2>1, <2>2 DEF Images, Atomic!WholeImages
<1> QED
  BY <1>1, <1>2

(* A configuration is its node model, its template and its secret.         *)
LEMMA SameConfig ==
  ASSUME NEW a \in Configs, NEW b \in Configs, a.secret = b.secret
  PROVE  a = [b EXCEPT !.node = a.node, !.template = a.template]
BY DEF Configs

LEMMA ImageTyped ==
  ASSUME TypeInv
  PROVE  Image \in Images
BY DEF Image, Images, TypeInv, TypeOK

(* Inside, nothing of a command is seen but that it makes the host suspect. *)
LEMMA StepUnseen ==
  ASSUME TypeInv, NEW c \in Commands, Step(c), ~Release(c)
  PROVE  /\ pc[c] \in Working /\ JobStep(c) /\ UNCHANGED lock
         /\ suspect' \/ suspect' = suspect
<1>1. ASSUME NEW f \in Files,
             WriteArtifact(c, f) \/ Prune(c, f) \/ UndoArtifact(c, f)
               \/ RestoreArtifact(c, f)
      PROVE  /\ pc[c] \in Working /\ JobStep(c) /\ UNCHANGED lock
             /\ suspect' \/ suspect' = suspect
  BY <1>1, TypeWriteArtifact, TypePrune, TypeUndoArtifact, TypeRestoreArtifact
     DEF WriteArtifact, Prune, UndoArtifact, UndoStep, RestoreArtifact, Working
<1>2. CASE WriteActive(c) \/ WriteConfig(c) \/ WriteFails(c) \/ PruneFails(c)
             \/ UndoActive(c)
  <2>1. pc[c] \in Working /\ UNCHANGED lock /\ (suspect' \/ suspect' = suspect)
    BY <1>2 DEF WriteActive, WriteConfig, WriteFails, PruneFails, UndoActive,
       UndoStep, Working
  <2> QED
    BY <1>2, <2>1, TypeWriteActive, TypeWriteConfig, TypeWriteFails,
       TypePruneFails, TypeUndoActive
<1>3. CASE RestoreActive(c) \/ RestoreConfig(c) \/ RestoreFails(c)
             \/ Reactivate(c) \/ ReactivateFails(c)
  <2>1. pc[c] \in Working /\ UNCHANGED lock /\ (suspect' \/ suspect' = suspect)
    BY <1>3 DEF RestoreActive, RestoreConfig, RestoreFails, Reactivate,
       ReactivateFails, Working
  <2> QED
    BY <1>3, <2>1, TypeRestoreActive, TypeRestoreConfig, TypeRestoreFails,
       TypeReactivate, TypeReactivateFails
<1>4. CASE Finish(c) \/ FinishFails(c)
  <2>1. pc[c] \in Working /\ UNCHANGED lock /\ (suspect' \/ suspect' = suspect)
    BY <1>4 DEF Finish, FinishFails, Working
  <2> QED
    BY <1>4, <2>1, TypeFinish, TypeFinishFails
<1> QED
  BY <1>1, <1>2, <1>3, <1>4 DEF Step

(* The lock is dropped: what the command did becomes visible, all of it or *)
(* nothing.                                                                *)
LEMMA ReleaseSeen ==
  ASSUME TypeInv, WholeInv, RestoreInv, NEW c \in Commands, Release(c)
  PROVE  \/ Atomic!Next
         \/ Seen' = Seen /\ suspect' = suspect
<1> USE ConstantsAssumption
<1>1. /\ pc[c] \in Working /\ job[c] \in Jobs /\ Sound(c) /\ lock = c
      /\ PlannedFiles(job[c]) /\ PlannedTarget(job[c])
  BY AtWork, Inside DEF Release, Working
<1>2. /\ Seen = job[c].snap /\ Seen' = Image
      /\ suspect' = (suspect /\ ~Heals(c))
  BY <1>1 DEF Release, Seen, Image, disk
<1>3. /\ job[c].snap \in Images /\ Image \in Images /\ job[c].target \in Configs
      /\ Image.config = config /\ Image.artifact = artifact
      /\ Image.active = active
  BY <1>1, ImageTyped DEF Jobs, Image
<1>4. job[c].snap.config # Absent =>
        /\ job[c].snap.config \in Configs /\ config \in Configs
        /\ config.secret >= job[c].snap.config.secret
  <2>1. job[c].snap.config # Absent =>
          /\ job[c].snap.config \in Configs
          /\ job[c].target.secret >= job[c].snap.config.secret
    BY <1>1, <1>3 DEF PlannedTarget, Images, Configs, Jobs, Ops
  <2> QED
    BY <1>1, <1>3, <2>1 DEF Sound, Configs
<1>5. CASE suspect'
  <2>1. Atomic!Damage
    BY <1>2, <1>3, <1>4, <1>5 DEF Atomic!Damage, Seen
  <2> QED
    BY <2>1 DEF Atomic!Next
<1>6. CASE ~suspect' /\ pc[c] = "failed"
  <2>1. ~suspect /\ ~job[c].fault
    BY <1>1, <1>2, <1>6 DEF Heals, Sound
  <2>2. Image = job[c].snap
    BY <1>6, <2>1, RestoreImplies DEF FailureRestores
  <2> QED
    BY <1>2, <1>6, <2>1, <2>2 DEF TypeInv, TypeOK
<1>7. CASE ~suspect' /\ pc[c] # "failed"
  <2>1. /\ ~job[c].fault
        /\ Heals(c) \/ ~suspect
        /\ ~suspect => OneDeployment(job[c].snap)
        /\ pc[c] \in {"done", "unrecovered"}
    BY <1>1, <1>2, <1>7 DEF Sound, Heals, Release
  <2>2. /\ Forward(c) /\ pc[c] \notin Publishing \cup {"prune"}
        /\ pc[c] # "active" /\ pc[c] # "artifacts"
    BY <2>1 DEF Forward, Heals, Publishing
  <2>3. Laid(c)
    BY <1>1, <2>2, Inside
  <2>4. config = job[c].target /\ config # Absent /\ OneDeployment(Image)
    BY <1>1, <2>1, <2>2, LaidWhole DEF Heals
  <2>5. Image \in Atomic!WholeImages(config)
    BY <1>3, <2>4, SeenWhole
  <2>6. CASE job[c].op \in {"commit", "activate", "template", "regenerate"}
    <3>1. job[c].snap.config # Absent /\ job[c].snap.config \in Configs
      BY <1>1, <1>4, <2>6 DEF PlannedTarget
    <3>2. config.secret = job[c].snap.config.secret
      BY <1>1, <2>4, <2>6 DEF PlannedTarget
    <3>3. config = [job[c].snap.config EXCEPT !.node = config.node,
                                              !.template = config.template]
      BY <1>3, <2>4, <3>1, <3>2, SameConfig
    <3>4. config.node \in Nodes /\ config.template \in Templates
      BY <1>3, <2>4 DEF Configs
    <3>5. Seen' \in Atomic!WholeImages([Seen.config EXCEPT
                      !.node = config.node, !.template = config.template])
      BY <1>2, <2>5, <3>3
    <3>6. Seen.config # Absent /\ suspect' = FALSE
      BY <1>2, <1>7, <3>1 DEF TypeInv, TypeOK
    <3>7. Atomic!Publish
      BY <3>4, <3>5, <3>6 DEF Atomic!Publish, Seen
    <3> QED
      BY <3>7 DEF Atomic!Next
  <2>7. CASE job[c].op \notin {"commit", "activate", "template", "regenerate"}
    <3>1. ~suspect /\ suspect' = suspect
      BY <1>2, <1>7, <2>1, <2>7 DEF Heals, TypeInv, TypeOK
    <3>2. CASE job[c].op = "initialize"
      <4>1. Seen = Atomic!Nothing
        BY <1>1, <1>2, <1>3, <2>1, <3>1, <3>2, SeenWhole DEF PlannedTarget
      <4>2. /\ config = [node |-> config.node, template |-> config.template,
                         secret |-> 0]
            /\ config.node \in Nodes /\ config.template \in Templates
        BY <1>1, <1>3, <2>4, <3>2 DEF PlannedTarget, Configs
      <4>3. Atomic!Initialize
        BY <1>2, <2>5, <3>1, <4>1, <4>2 DEF Atomic!Initialize, Seen
      <4> QED
        BY <4>3 DEF Atomic!Next
    <3>3. CASE job[c].op \in {"credential", "restart"}
      <4>1. /\ \A f \in Files : artifact[f] = job[c].snap.artifact[f]
            /\ active = job[c].snap.active
        BY <1>1, <2>3, <3>3 DEF Laid, PlannedFiles
      <4>2. artifact = job[c].snap.artifact
        BY <1>3, <4>1 DEF Images
      <4>3. CASE job[c].op = "restart"
        <5>1. Image = job[c].snap
          BY <1>1, <1>3, <2>4, <4>1, <4>2, <4>3
             DEF PlannedTarget, Images
        <5> QED
          BY <1>2, <3>1, <5>1
      <4>4. CASE job[c].op = "credential"
        <5>1. /\ job[c].snap.config # Absent
              /\ job[c].snap.config \in Configs
              /\ config.node = job[c].snap.config.node
              /\ config.template = job[c].snap.config.template
              /\ config.secret > job[c].snap.config.secret
          BY <1>1, <1>4, <2>4, <4>4 DEF PlannedTarget
        <5>2. config = [job[c].snap.config EXCEPT !.secret = config.secret]
          BY <1>3, <2>4, <5>1 DEF Configs
        <5>3. Image = [job[c].snap EXCEPT !.config =
                         [job[c].snap.config EXCEPT !.secret = config.secret]]
          BY <1>3, <4>1, <4>2, <5>2 DEF Images
        <5>4. Atomic!Rotate
          BY <1>2, <1>3, <2>4, <3>1, <5>1, <5>3 DEF Atomic!Rotate, Seen
        <5> QED
          BY <5>4 DEF Atomic!Next
      <4> QED
        BY <3>3, <4>3, <4>4
    <3> QED
      BY <1>1, <2>7, <3>2, <3>3 DEF Jobs, Ops
  <2> QED
    BY <2>6, <2>7
<1> QED
  BY <1>5, <1>6, <1>7

LEMMA AtomicStep ==
  ASSUME TypeInv, WholeInv, RestoreInv, [Next]_vars
  PROVE  \/ Atomic!Next
         \/ Seen' = Seen /\ suspect' = suspect
<1> USE ConstantsAssumption
<1>1. CASE UNCHANGED vars
  BY <1>1 DEF vars, Seen, Image
<1>2. ASSUME NEW c \in Commands, Begin(c)
      PROVE  Seen' = Seen /\ suspect' = suspect
  <2>1. CASE OpenWizard(c) \/ CloseWizard(c)
    BY <2>1 DEF OpenWizard, CloseWizard, Seen, Image, disk
  <2>2. CASE ~OpenWizard(c) /\ ~CloseWizard(c)
    BY <1>2, <2>2, Entered DEF Seen
  <2> QED
    BY <2>1, <2>2
<1>3. ASSUME suspect', Seen' = Seen PROVE Atomic!Next
  <2>1. Seen.config # Absent => Seen.config.secret \in Nat
    <3>1. Seen \in Images
      BY ImageTyped, AtWork DEF Seen, TypeInv, TypeOK, Shape, Jobs
    <3> QED
      BY <3>1 DEF Images, Configs
  <2>2. Atomic!Damage
    BY <1>3, <2>1 DEF Atomic!Damage, Seen
  <2> QED
    BY <2>2 DEF Atomic!Next
<1>4. ASSUME NEW c \in Commands, Step(c), ~Release(c)
      PROVE  Atomic!Next \/ (Seen' = Seen /\ suspect' = suspect)
  <2>1. Seen' = Seen /\ (suspect' \/ suspect' = suspect)
    BY <1>4, StepUnseen, AtWork DEF Seen, JobStep
  <2> QED
    BY <1>3, <2>1
<1>5. ASSUME NEW c \in Commands, Crash(c)
      PROVE  Atomic!Next \/ (Seen' = Seen /\ suspect' = suspect)
  <2>1. CASE lock # c
    <3>1. lock # Free => lock \in Commands /\ job'[lock] = job[lock]
      BY <1>5, <2>1 DEF Crash, TypeInv, TypeOK
    <3> QED
      BY <1>5, <2>1, <3>1 DEF Crash, Seen, Image, disk, TypeInv, TypeOK
  <2>2. CASE lock = c
    <3>1. pc[c] \in Working /\ job[c] \in Jobs /\ Sound(c)
          /\ PlannedTarget(job[c])
      BY <2>2, Inside DEF TypeInv, Shape
    <3>2. Seen = job[c].snap /\ Seen' = Image /\ suspect'
      BY <1>5, <2>2 DEF Crash, Seen, Image, disk
    <3>3. job[c].snap.config # Absent =>
            config # Absent /\ config.secret >= job[c].snap.config.secret
      BY <3>1 DEF Sound, PlannedTarget, Images, Configs, Jobs, Ops
    <3>4. Atomic!Damage
      BY <3>2, <3>3 DEF Atomic!Damage, Seen, Image
    <3> QED
      BY <3>4 DEF Atomic!Next
  <2> QED
    BY <2>1, <2>2
<1>6. ASSUME ServiceRestarts
      PROVE  Atomic!Next \/ (Seen' = Seen /\ suspect' = suspect)
  <2>1. Seen' = Seen /\ (suspect' \/ suspect' = suspect)
    BY <1>6 DEF ServiceRestarts, Seen, Image, disk, TypeInv, TypeOK
  <2> QED
    BY <1>3, <2>1
<1> QED
  BY <1>1, <1>2, <1>4, <1>5, <1>6, ReleaseSeen DEF Next

LEMMA AtomicInit == Init => Atomic!Init
<1> SUFFICES ASSUME Init PROVE Atomic!Init
  OBVIOUS
<1>1. /\ TypeInv /\ lock = Free /\ ~suspect /\ suspect = FALSE
      /\ Seen = Image /\ Image.config = config
  BY TypeInit DEF Init, Seen, Image
<1>2. OneDeployment(Image)
  BY <1>1, WholeInit DEF WholeInv
<1>3. CASE config = Absent
  BY <1>1, <1>2, <1>3, ImageTyped, SeenWhole DEF Atomic!Init, Seen
<1>4. CASE config # Absent
  <2>1. /\ config = [node |-> config.node, template |-> config.template,
                     secret |-> 0]
        /\ config.node \in Nodes /\ config.template \in Templates
    BY <1>4 DEF Init
  <2>2. Image \in Atomic!WholeImages(config)
    BY <1>1, <1>2, <1>4, ImageTyped, SeenWhole
  <2> QED
    BY <1>1, <2>1, <2>2 DEF Atomic!Init, Seen
<1> QED
  BY <1>3, <1>4

(* Seen between commands the deployment changes all at once: each command  *)
(* publishes a whole deployment, replaces one credential or leaves it      *)
(* alone, and what a crash or a failed recovery damages is suspect until   *)
(* the next complete publication and never goes back to an older           *)
(* credential.                                                             *)
THEOREM CommandsAreAtomic == Spec => AtomicSpec
<1>1. TypeInv /\ WholeInv /\ RestoreInv /\ [Next]_vars
        => [Atomic!Next]_(Atomic!vars)
  BY AtomicStep DEF Atomic!vars, Seen
<1> QED
  BY <1>1, AtomicInit, WholeAlways, PTL DEF Spec, AtomicSpec, Atomic!Spec
=============================================================================
