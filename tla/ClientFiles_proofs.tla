-------------------------- MODULE ClientFiles_proofs --------------------------
(***************************************************************************)
(* For any number of commands, sessions and faults: the configuration and  *)
(* the sources on disk are what the successful commands make of them, one  *)
(* after the other, and what is published comes from what is on disk.      *)
(*                                                                         *)
(* Both hold while no command has the lock.  The inductive invariant says  *)
(* what the command that has it may have done so far: how far disk and     *)
(* publication are from what it found, and that what it keeps to put back  *)
(* is what it found.                                                       *)
(***************************************************************************)
EXTENDS ClientFiles, TLAPS

Record(c, s) == [config |-> c, sources |-> s]

IsSources(s) == s = [n \in SourceNames |-> s[n]]
IsDeployment(d) ==
    /\ d = Record(d.config, d.sources)
    /\ IsConfig(d.config) /\ IsSources(d.sources)

(* Applied, taken apart: what a job makes of the configuration and of the  *)
(* sources.                                                                *)
NewConfig(j, c) ==
    CASE j.op = "extras" ->
            [c EXCEPT !.extras = IF j.add THEN Registered(@, j.entry)
                                 ELSE WithoutSet(@, j.entry.name)]
      [] j.op = "template" -> [c EXCEPT !.template = j.to]
      [] j.op = "wizard" -> [c EXCEPT ![j.topic] = j.answer]
      [] OTHER -> c

NewSources(j, s) ==
    CASE j.op = "edit" -> [s EXCEPT ![j.target] = Changed(@, j.items, j.add)]
      [] j.op = "list" -> [s EXCEPT ![j.kind] = Changed(@, j.items, j.add)]
      [] j.op = "clear" -> [n \in DOMAIN s |-> IF n \in j.targets THEN {} ELSE s[n]]
      [] OTHER -> s

LEMMA ListsAreSources == RuleKinds \subseteq SourceNames \ {"server"}
BY DEF RuleKinds, SourceNames, NoSources

LEMMA JobOps ==
    ASSUME NEW j, IsJob(j)
    PROVE  j.op \in {"edit", "clear", "list", "extras", "template", "wizard", "regenerate"}
BY DEF IsJob, SourceOps, ConfigOps

LEMMA AppliedInParts ==
    ASSUME NEW j, IsJob(j), NEW c, NEW s
    PROVE  Applied(j, Record(c, s)) = Record(NewConfig(j, c), NewSources(j, s))
<1>1. CASE j.op = "edit"
  BY <1>1 DEF Applied, Record, NewConfig, NewSources
<1>2. CASE j.op = "list"
  BY <1>2 DEF Applied, Record, NewConfig, NewSources
<1>3. CASE j.op = "clear"
  BY <1>3 DEF Applied, Record, NewConfig, NewSources
<1>4. CASE j.op = "extras"
  BY <1>4 DEF Applied, Record, NewConfig, NewSources
<1>5. CASE j.op = "template"
  BY <1>5 DEF Applied, Record, NewConfig, NewSources
<1>6. CASE j.op = "wizard"
  BY <1>6 DEF Applied, Record, NewConfig, NewSources
<1>7. CASE j.op = "regenerate"
  BY <1>7 DEF Applied, Record, NewConfig, NewSources
<1> QED BY <1>1, <1>2, <1>3, <1>4, <1>5, <1>6, <1>7, JobOps

LEMMA NewAreTyped ==
    ASSUME NEW j, IsJob(j), NEW c, IsConfig(c), NEW s, IsSources(s)
    PROVE  IsConfig(NewConfig(j, c)) /\ IsSources(NewSources(j, s))
<1>1. IsConfig(NewConfig(j, c))
  BY JobOps DEF IsConfig, NewConfig
<1>2. IsSources(NewSources(j, s))
  BY JobOps DEF IsSources, NewSources
<1> QED BY <1>1, <1>2

(* An operation changes the configuration or the sources, never both. *)
LEMMA OnePartChanges ==
    ASSUME NEW j, IsJob(j), NEW c, NEW s
    PROVE  /\ j.op \notin ConfigOps => NewConfig(j, c) = c
           /\ j.op \notin SourceOps => NewSources(j, s) = s
BY JobOps DEF ConfigOps, SourceOps, NewConfig, NewSources

-----------------------------------------------------------------------------
(***************************************************************************)
(* The server file does not depend on the template: the profile it takes   *)
(* its dialect from is the newest the kernel accepts, and what the         *)
(* templates differ in, an outbound for blocking, is taken by the same     *)
(* cores as the outbound for DNS that those profiles have anyway.          *)
(***************************************************************************)
SameServer(c, d) ==
    c.protocols = d.protocols /\ c.hopping = d.hopping /\ c.ipv4Only = d.ipv4Only

LEMMA BlockingIsTakenLikeDns ==
    /\ {"block outbound", "dns outbound"} \subseteq DOMAIN Taking
    /\ Taking["block outbound"] = Taking["dns outbound"]
BY DEF Taking, Since11, Since12, Until12, Until13

LEMMA BlockingChangesNothing ==
    ASSUME NEW c, NEW v \in Minors, NEW k
    PROVE  CoreAccepts(k, ProfileFeatures(c, v))
             <=> CoreAccepts(k, VersionFeatures(v) \cup NodeFeatures(ProfileNodes(c, v)))
<1> DEFINE F == VersionFeatures(v) \cup NodeFeatures(ProfileNodes(c, v))
<1>1. CASE ~BlocksBeforeActions(c, v)
  <2>1. ProfileFeatures(c, v) = F
    BY <1>1 DEF ProfileFeatures
  <2> QED BY <2>1
<1>2. CASE BlocksBeforeActions(c, v)
  <2>1. "dns outbound" \in F
    BY <1>2 DEF BlocksBeforeActions, RouteActions, VersionFeatures
  <2>2. ProfileFeatures(c, v) = F \cup {"block outbound"}
    BY <1>2 DEF ProfileFeatures
  <2> QED BY <2>1, <2>2, BlockingIsTakenLikeDns DEF CoreAccepts
<1> QED BY <1>1, <1>2

LEMMA SameNodes ==
    ASSUME NEW c, NEW d, SameServer(c, d), NEW v
    PROVE  ProfileNodes(c, v) = ProfileNodes(d, v)
<1>1. ClientNodes(c) = ClientNodes(d)
  BY DEF SameServer, ClientNodes, Node
<1> QED BY <1>1 DEF ProfileNodes

LEMMA SameProfile ==
    ASSUME NEW c, NEW d, SameServer(c, d), NEW k
    PROVE  SelectFullProfile(c, k) = SelectFullProfile(d, k)
<1>1. ASSUME NEW v \in Minors
      PROVE  /\ ProfileNodes(c, v) # {} <=> ProfileNodes(d, v) # {}
             /\ CoreAccepts(k, ProfileFeatures(c, v)) <=> CoreAccepts(k, ProfileFeatures(d, v))
  BY SameNodes, BlockingChangesNothing
<1>2. {v \in Minors : ProfileNodes(c, v) # {} /\ CoreAccepts(k, ProfileFeatures(c, v))}
        = {v \in Minors : ProfileNodes(d, v) # {} /\ CoreAccepts(k, ProfileFeatures(d, v))}
  BY <1>1
<1> QED BY <1>2 DEF SelectFullProfile

LEMMA ServerIgnoresTemplate ==
    ASSUME NEW c, NEW d, SameServer(c, d), NEW s, NEW t, s.server = t.server, NEW k
    PROVE  ServerFile(c, s, k) = ServerFile(d, t, k)
BY SameProfile DEF ServerFile, SingBoxServer, SameServer

-----------------------------------------------------------------------------
(***************************************************************************)
(* The inductive invariant                                                 *)
(***************************************************************************)
Busy == {"entered", "written", "published", "undo"}

(* Published files come from a deployment, those left behind and the list  *)
(* that was taken back apart.                                              *)
Backed(left, back, files, d) ==
    /\ "client" \notin left =>
          /\ files["client"].config = d.config
          /\ \A s \in SourceNames \ ({"server"} \cup back) :
                files["client"].sources[s] = d.sources[s]
    /\ "server" \notin left =>
          /\ SameServer(files["server"].config, d.config)
          /\ files["server"].sources.server = d.sources.server

(* One type invariant for variables, commands and the lock. *)
Types ==
    /\ session \in Sessions
    /\ IsDeployment(Deployed) /\ IsDeployment(before.deployed)
    /\ lock \in Commands \cup {NoOne}
    /\ pc \in [Commands -> {"idle", "asked", "done"} \cup Busy]
    /\ DOMAIN job = Commands /\ DOMAIN seen = Commands
    /\ \A c \in Commands :
          /\ pc[c] # "idle" => IsJob(job[c])
          /\ IsDeployment(seen[c])
          /\ lock = c <=> pc[c] \in Busy

Found == before.deployed

(* Documents are being moved aside. *)
PartlyCleared(j) ==
    \A s \in SourceNames : sources[s] = Found.sources[s] \/ (s \in j.targets /\ sources[s] = {})

Entered(c, j) ==
    /\ config = Found.config /\ draft = Found.config /\ agreed = Found
    /\ j.op # "regenerate"
    /\ IF j.op = "clear" THEN PartlyCleared(j) ELSE sources = Found.sources
    /\ j.op = "edit" => seen[c].sources[j.target] = Found.sources[j.target]
    /\ Backed(suspect, relic, published, Found)

Written(j) ==
    /\ config = Found.config /\ agreed = Found
    /\ draft = NewConfig(j, Found.config) /\ sources = NewSources(j, Found.sources)
    /\ Backed(suspect, relic, published, Found)

Published(j) ==
    /\ config = NewConfig(j, Found.config) /\ sources = NewSources(j, Found.sources)
    /\ agreed = Found
    /\ relic = {} /\ Backed(suspect, relic, published, Deployed)

(* The configuration stays as it is; the sources go back. *)
Undoing(j) ==
    LET left == Record(config, Found.sources)
    IN  /\ agreed = left
        /\ j.op \notin SourceOps => sources = Found.sources
        /\ Backed(suspect, relic, published, left)

Holding(c) ==
    /\ pc[c] = "entered" => Entered(c, job[c])
    /\ pc[c] = "written" => Written(job[c])
    /\ pc[c] = "published" => Published(job[c])
    /\ pc[c] = "undo" => Undoing(job[c])
    /\ Backed(before.suspect, before.relic, before.published, Found)

Free == lock = NoOne => agreed = Deployed /\ Backed(suspect, relic, published, Deployed)
Inside == \A c \in Commands : lock = c => Holding(c)

IInv == Types /\ Free /\ Inside

LEMMA InitHolds == Init => IInv
<1> SUFFICES ASSUME Init PROVE IInv
  OBVIOUS
<1>1. IsConfig(config) /\ IsSources(sources)
  BY ClientFilesAssumption DEF Init, IsSources, NoSources, SourceNames
<1>2. Types
  BY <1>1, ClientFilesAssumption DEF Init, Types, Busy, IsDeployment, Deployed, Record
<1>3. Free
  BY DEF Init, Free, Backed, Parts, SameServer
<1>4. Inside
  BY ClientFilesAssumption DEF Init, Inside
<1> QED BY <1>2, <1>3, <1>4 DEF IInv

-----------------------------------------------------------------------------
(***************************************************************************)
(* Steps, by what they do with the lock.                                   *)
(***************************************************************************)
LEMMA WhoHolds ==
    ASSUME Types, NEW c \in Commands
    PROVE  /\ pc[c] \in Busy <=> lock = c
           /\ pc[c] \in Busy => lock # NoOne
BY ClientFilesAssumption DEF Types

(* The typing of a move of one command. *)
LEMMA MoveIsTyped ==
    ASSUME Types, NEW c \in Commands, pc[c] # "idle",
           NEW to \in {"done"} \cup Busy, Goes(c, to),
           \/ to \in Busy /\ lock' = c /\ lock \in {c, NoOne}
           \/ to = "done" /\ pc[c] \notin Busy /\ lock' = lock
           \/ to = "done" /\ lock = c /\ lock' = NoOne,
           UNCHANGED <<session, job, seen>>,
           IsDeployment(Deployed'), IsDeployment(before'.deployed)
    PROVE  Types'
<1>1. pc' \in [Commands -> {"idle", "asked", "done"} \cup Busy]
  BY DEF Types, Goes
<1>2. lock' \in Commands \cup {NoOne}
  BY DEF Types
<1>3. ASSUME NEW d \in Commands
      PROVE  /\ pc'[d] # "idle" => IsJob(job'[d])
             /\ IsDeployment(seen'[d])
             /\ lock' = d <=> pc'[d] \in Busy
  <2>1. pc'[d] = IF d = c THEN to ELSE pc[d]
    BY DEF Types, Goes
  <2>2. pc'[d] # "idle" => IsJob(job'[d])
    BY <2>1 DEF Types
  <2>3. lock' = d <=> pc'[d] \in Busy
    BY <2>1, ClientFilesAssumption DEF Types, Busy
  <2> QED BY <2>2, <2>3 DEF Types
<1> QED BY <1>1, <1>2, <1>3 DEF Types, Deployed

(* A step beside the lock. *)
LEMMA BesideTheLock ==
    ASSUME Types, Free, Inside, NEW c \in Commands, pc[c] \notin Busy,
           \A d \in Commands \ {c} : pc'[d] = pc[d] /\ job'[d] = job[d] /\ seen'[d] = seen[d],
           UNCHANGED <<config, sources, published, lock, before, draft, agreed, suspect, relic>>
    PROVE  Free' /\ Inside'
<1>1. Free'
  BY DEF Free, Deployed, Backed
<1>2. ASSUME NEW d \in Commands, lock' = d PROVE Holding(d)'
  <2>1. d # c /\ lock = d
    BY <1>2 DEF Types
  <2>2. Holding(d) /\ pc'[d] = pc[d] /\ job'[d] = job[d] /\ seen'[d] = seen[d]
    BY <2>1 DEF Inside
  <2> QED BY <2>2 DEF Holding, Entered, Written, Published, Undoing, Found, PartlyCleared, Deployed,
                      Backed, Record
<1> QED BY <1>1, <1>2 DEF Inside

(* A step of the command that has, or takes, the lock and keeps it. *)
LEMMA WithTheLock ==
    ASSUME NEW c \in Commands, lock' = c, Holding(c)'
    PROVE  Free' /\ Inside'
BY ClientFilesAssumption DEF Free, Inside

LEMMA GivingUpTheLock ==
    ASSUME NEW c \in Commands, lock' = NoOne, agreed' = Deployed',
           Backed(suspect', relic', published', Deployed')
    PROVE  Free' /\ Inside'
BY ClientFilesAssumption DEF Free, Inside

-----------------------------------------------------------------------------
(***************************************************************************)
(* One lemma per action                                                    *)
(***************************************************************************)
LEMMA AskStep ==
    ASSUME IInv, NEW c \in Commands, NEW j \in session.jobs, Ask(c, j)
    PROVE  IInv'
<1> USE DEF IInv
<1>1. IsJob(j)
  BY ClientFilesAssumption DEF Types
<1>2. ASSUME NEW d \in Commands
      PROVE  /\ pc'[d] = IF d = c THEN "asked" ELSE pc[d]
             /\ job'[d] = IF d = c THEN j ELSE job[d]
             /\ seen'[d] = IF d = c THEN Deployed ELSE seen[d]
  BY DEF Ask, Goes, Types
<1>3. Types'
  <2>1. pc' \in [Commands -> {"idle", "asked", "done"} \cup Busy]
    BY DEF Types, Ask, Goes
  <2>2. ASSUME NEW d \in Commands
        PROVE  /\ pc'[d] # "idle" => IsJob(job'[d])
               /\ IsDeployment(seen'[d])
               /\ lock' = d <=> pc'[d] \in Busy
    BY <1>1, <1>2 DEF Types, Ask, Busy
  <2>3. DOMAIN job' = Commands /\ DOMAIN seen' = Commands
    BY DEF Types, Ask
  <2> QED BY <2>1, <2>2, <2>3 DEF Types, Ask, Deployed
<1>4. Free' /\ Inside'
  <2>1. pc[c] \notin Busy
    BY DEF Ask, Busy
  <2> QED BY <2>1, <1>2, BesideTheLock DEF Ask
<1> QED BY <1>3, <1>4

(* Answering without the lock: the command ends, nothing else changes. *)
LEMMA EndsUnlocked ==
    ASSUME IInv, NEW c \in Commands, pc[c] = "asked", Goes(c, "done"),
           UNCHANGED <<session, config, sources, published, lock, job, seen, before, draft, agreed,
                       suspect, relic>>
    PROVE  IInv'
<1> USE DEF IInv
<1>1. pc[c] \notin Busy
  BY DEF Busy
<1>2. Types'
  BY <1>1, MoveIsTyped DEF Types, Deployed
<1>3. Free' /\ Inside'
  BY <1>1, BesideTheLock DEF Goes, Types
<1> QED BY <1>2, <1>3

LEMMA EnterStep ==
    ASSUME IInv, NEW c \in Commands, Enter(c)
    PROVE  IInv'
<1> USE DEF IInv
<1> DEFINE to == IF job[c].op = "regenerate" THEN "written" ELSE "entered"
<1>1. /\ Goes(c, to) /\ to \in Busy /\ pc[c] = "asked" /\ lock = NoOne /\ lock' = c
      /\ before' = [deployed |-> Deployed, published |-> published, suspect |-> suspect,
                    relic |-> relic]
      /\ draft' = config
      /\ UNCHANGED <<session, config, sources, published, job, seen, agreed, suspect, relic>>
      /\ ~Outdated(c)
  BY DEF Enter, Busy
<1>2. before'.deployed = Deployed /\ before'.published = published /\ before'.suspect = suspect
      /\ before'.relic = relic
  BY <1>1
<1>3. Types'
  BY <1>1, <1>2, MoveIsTyped DEF Types, Deployed
<1>4. agreed = Deployed /\ Backed(suspect, relic, published, Deployed)
  BY <1>1 DEF Free
<1>5. pc'[c] = to /\ job'[c] = job[c] /\ seen'[c] = seen[c] /\ IsJob(job[c])
  BY <1>1 DEF Types, Goes
<1>6. Deployed.config = config /\ Deployed.sources = sources
  BY DEF Deployed
<1>7. Holding(c)'
  <2>1. CASE job[c].op = "regenerate"
    <3>1. NewConfig(job[c], config) = config /\ NewSources(job[c], sources) = sources
      BY <2>1 DEF NewConfig, NewSources
    <3> QED BY <2>1, <3>1, <1>1, <1>2, <1>4, <1>5, <1>6 DEF Holding, Written, Found, Deployed
  <2>2. CASE job[c].op # "regenerate"
    <3>1. job[c].op = "edit" => seen[c].sources[job[c].target] = sources[job[c].target]
      BY <1>1 DEF Outdated
    <3> QED BY <2>2, <3>1, <1>1, <1>2, <1>4, <1>5, <1>6
            DEF Holding, Entered, Found, Deployed, PartlyCleared
  <2> QED BY <2>1, <2>2
<1> QED BY <1>1, <1>3, <1>7, WithTheLock

LEMMA AtWork ==
    ASSUME IInv, NEW c \in Commands, pc[c] \in Busy
    PROVE  /\ lock = c /\ Holding(c) /\ IsJob(job[c]) /\ pc[c] # "idle"
           /\ IsDeployment(Found) /\ Found = Record(Found.config, Found.sources)
           /\ \A to : Goes(c, to) => pc'[c] = to
BY WhoHolds DEF IInv, Inside, Types, Busy, IsDeployment, Found, Goes

LEMMA WriteSourceStep ==
    ASSUME IInv, NEW c \in Commands, WriteSource(c)
    PROVE  IInv'
<1> DEFINE j == job[c]
           source == IF j.op = "edit" THEN j.target ELSE j.kind
           base == IF j.op = "edit" THEN seen[c] ELSE Deployed
<1>1. /\ pc[c] = "entered" /\ pc[c] \in Busy /\ j.op \in {"edit", "list"} /\ Goes(c, "written")
      /\ sources' = [sources EXCEPT ![source] = Applied(j, base).sources[source]]
      /\ UNCHANGED <<session, config, published, lock, job, seen, before, draft, agreed, suspect, relic>>
  BY DEF WriteSource, Busy
<1>2. lock = c /\ IsJob(j) /\ pc[c] # "idle" /\ Entered(c, j) /\ IsDeployment(Found)
      /\ Backed(before.suspect, before.relic, before.published, Found) /\ pc'[c] = "written"
  BY <1>1, AtWork DEF Holding
<1>3. sources = Found.sources /\ IsSources(sources) /\ source \in SourceNames
      /\ base = Record(base.config, base.sources) /\ base.sources[source] = sources[source]
      /\ IsConfig(config)
  BY <1>1, <1>2, ListsAreSources DEF Entered, IsDeployment, IsJob, IInv, Types, Deployed, Record
<1>4. sources' = NewSources(j, sources)
  <2>1. Applied(j, base).sources = NewSources(j, base.sources)
    <3>1. Applied(j, Record(base.config, base.sources))
            = Record(NewConfig(j, base.config), NewSources(j, base.sources))
      BY <1>2, AppliedInParts
    <3>2. Applied(j, base) = Record(NewConfig(j, base.config), NewSources(j, base.sources))
      BY <1>3, <3>1
    <3> QED BY <3>2 DEF Record
  <2>2. CASE j.op = "edit"
    <3>1. NewSources(j, base.sources) = [base.sources EXCEPT ![source] = Changed(@, j.items, j.add)]
      BY <2>2 DEF NewSources
    <3>2. NewSources(j, sources) = [sources EXCEPT ![source] = Changed(@, j.items, j.add)]
      BY <2>2 DEF NewSources
    <3>3. IsSources(base.sources)
      BY <2>2 DEF IInv, Types, IsDeployment
    <3> QED BY ZenonT(40), <1>1, <1>3, <2>1, <3>1, <3>2, <3>3 DEF IsSources
  <2>3. CASE j.op = "list"
    <3>1. base.sources = sources
      BY <2>3 DEF Deployed
    <3>2. NewSources(j, sources) = [sources EXCEPT ![source] = Changed(@, j.items, j.add)]
      BY <2>3 DEF NewSources
    <3> QED BY <1>1, <1>3, <2>1, <3>1, <3>2 DEF IsSources
  <2> QED BY <1>1, <2>2, <2>3
<1>5. IsSources(sources')
  BY <1>2, <1>3, <1>4, NewAreTyped
<1>6. Types'
  BY <1>1, <1>2, <1>3, <1>5, MoveIsTyped DEF IInv, Types, IsDeployment, Deployed, Record, Busy
<1>7. NewConfig(j, Found.config) = Found.config
  BY <1>1 DEF NewConfig
<1>8. Holding(c)'
  BY <1>1, <1>2, <1>3, <1>4, <1>7 DEF Holding, Entered, Written, Found
<1> QED BY <1>1, <1>2, <1>6, <1>8, WithTheLock DEF IInv

LEMMA GivesUpUnchanged ==
    ASSUME IInv, NEW c \in Commands, pc[c] = "entered", job[c].op # "clear", Leaves(c),
           UNCHANGED <<session, config, sources, published, job, seen, before, agreed, suspect, relic>>
    PROVE  IInv'
<1>1. lock = c /\ pc[c] # "idle" /\ Entered(c, job[c]) /\ IsDeployment(Found)
  BY AtWork DEF Holding, Busy
<1>2. agreed = Deployed /\ Backed(suspect, relic, published, Deployed)
  BY <1>1 DEF Entered, Deployed, IsDeployment, Record
<1>3. Types'
  BY <1>1, MoveIsTyped DEF IInv, Types, Leaves, Deployed
<1> QED BY <1>2, <1>3, GivingUpTheLock DEF IInv, Leaves, Deployed

LEMMA MoveAwayStep ==
    ASSUME IInv, NEW c \in Commands, MoveAway(c)
    PROVE  IInv'
<1> DEFINE j == job[c]
           left == {t \in j.targets : sources[t] # {}}
<1>1. /\ pc[c] = "entered" /\ pc[c] \in Busy /\ j.op = "clear"
      /\ UNCHANGED <<session, config, published, lock, job, seen, before, draft, agreed, suspect, relic>>
  BY DEF MoveAway, Busy
<1>2. /\ lock = c /\ IsJob(j) /\ pc[c] # "idle" /\ Entered(c, j) /\ IsDeployment(Found)
      /\ Backed(before.suspect, before.relic, before.published, Found)
      /\ \A to : Goes(c, to) => pc'[c] = to
  BY <1>1, AtWork DEF Holding
<1>3. PartlyCleared(j) /\ IsSources(sources) /\ IsConfig(config) /\ IsSources(Found.sources)
  BY <1>1, <1>2 DEF Entered, IInv, Types, IsDeployment, Deployed
<1>4. CASE left = {}
  <2>1. Goes(c, "written") /\ sources' = sources
    BY <1>4 DEF MoveAway
  <2>2. sources = NewSources(j, Found.sources)
    <3>1. NewSources(j, Found.sources)
            = [n \in SourceNames |-> IF n \in j.targets THEN {} ELSE Found.sources[n]]
      BY <1>1, <1>3 DEF NewSources, IsSources
    <3>2. ASSUME NEW n \in SourceNames
          PROVE  sources[n] = IF n \in j.targets THEN {} ELSE Found.sources[n]
      BY <1>3, <1>4 DEF PartlyCleared
    <3> QED BY <1>3, <3>1, <3>2 DEF IsSources
  <2>3. NewConfig(j, Found.config) = Found.config
    BY <1>1 DEF NewConfig
  <2>4. Types'
    BY <1>1, <1>2, <2>1, MoveIsTyped DEF IInv, Types, Deployed, Busy
  <2>5. Holding(c)'
    BY <1>1, <1>2, <2>1, <2>2, <2>3 DEF Holding, Entered, Written, Found
  <2> QED BY <1>1, <1>2, <2>4, <2>5, WithTheLock DEF IInv
<1>5. CASE left # {}
  <2>1. PICK t \in left : sources' = [sources EXCEPT ![t] = {}]
    BY <1>5 DEF MoveAway
  <2>2. pc' = pc
    BY <1>5 DEF MoveAway
  <2>3. IsSources(sources')
    BY <1>3, <2>1 DEF IsSources
  <2>4. Types'
    BY <1>1, <1>3, <2>2, <2>3 DEF IInv, Types, IsDeployment, Deployed, Record
  <2>5. PartlyCleared(j)'
    BY <1>1, <1>3, <2>1 DEF PartlyCleared, IsSources, Found
  <2>6. Holding(c)'
    BY <1>1, <1>2, <2>2, <2>5 DEF Holding, Entered, Found
  <2> QED BY <1>1, <1>2, <2>4, <2>6, WithTheLock DEF IInv
<1> QED BY <1>4, <1>5

LEMMA PrepareStep ==
    ASSUME IInv, NEW c \in Commands, Prepare(c)
    PROVE  IInv'
<1> DEFINE j == job[c]
           new == Applied(j, Deployed).config
<1>1. /\ pc[c] = "entered" /\ pc[c] \in Busy /\ j.op \in ConfigOps /\ j.op # "clear"
      /\ UNCHANGED <<session, config, sources, published, job, seen, before, agreed, suspect, relic>>
  BY DEF Prepare, Busy, ConfigOps
<1>2. CASE Valid(new)
  <2>1. Goes(c, "written") /\ draft' = new /\ lock' = lock
    BY <1>2 DEF Prepare
  <2>2. /\ lock = c /\ IsJob(j) /\ pc[c] # "idle" /\ Entered(c, j) /\ IsDeployment(Found)
        /\ Backed(before.suspect, before.relic, before.published, Found) /\ pc'[c] = "written"
    BY <1>1, <2>1, AtWork DEF Holding
  <2>3. new = NewConfig(j, config)
    <3>1. Applied(j, Deployed) = Record(NewConfig(j, config), NewSources(j, sources))
      BY <2>2, AppliedInParts DEF Deployed, Record
    <3> QED BY <3>1 DEF Record
  <2>4. NewSources(j, Found.sources) = Found.sources
    BY <1>1, <2>2, OnePartChanges DEF ConfigOps, SourceOps
  <2>5. Types'
    BY <1>1, <2>1, <2>2, MoveIsTyped DEF IInv, Types, Deployed, Busy
  <2>6. Holding(c)'
    BY <1>1, <2>1, <2>2, <2>3, <2>4 DEF Holding, Entered, Written, Found
  <2> QED BY <2>1, <2>2, <2>5, <2>6, WithTheLock DEF IInv
<1>3. CASE ~Valid(new)
  BY <1>1, <1>3, GivesUpUnchanged DEF Prepare
<1> QED BY <1>2, <1>3

(* From entered or written a failure leads to undoing. *)
LEMMA TurnsBack ==
    ASSUME IInv, NEW c \in Commands, pc[c] \in {"entered", "written"}, Goes(c, "undo"),
           pc[c] = "entered" => job[c].op = "clear",
           UNCHANGED <<session, config, sources, published, lock, job, seen, before, draft, agreed,
                       suspect, relic>>
    PROVE  IInv'
<1>1. /\ lock = c /\ IsJob(job[c]) /\ pc[c] # "idle" /\ Holding(c) /\ IsDeployment(Found)
      /\ Found = Record(Found.config, Found.sources)
      /\ pc'[c] = "undo"
  BY AtWork DEF Busy
<1>2. config = Found.config /\ agreed = Found /\ Backed(suspect, relic, published, Found)
  BY <1>1 DEF Holding, Entered, Written
<1>3. job[c].op \notin SourceOps => sources = Found.sources
  BY <1>1, OnePartChanges DEF Holding, Entered, Written, SourceOps
<1>4. Types'
  BY <1>1, MoveIsTyped DEF IInv, Types, Deployed, Busy
<1>5. Holding(c)'
  BY <1>1, <1>2, <1>3 DEF Holding, Undoing, Found
<1> QED BY <1>1, <1>4, <1>5, WithTheLock DEF IInv

LEMMA TemplateKeepsServer ==
    ASSUME NEW j, j.op = "template", NEW c, IsConfig(c), NEW d, SameServer(d, c)
    PROVE  SameServer(d, NewConfig(j, c))
<1>1. NewConfig(j, c) = [c EXCEPT !.template = j.to]
  BY DEF NewConfig
<1> QED BY <1>1 DEF SameServer, IsConfig, ConfigFields

LEMMA PublishStep ==
    ASSUME IInv, NEW c \in Commands, Publish(c)
    PROVE  IInv'
<1> DEFINE j == job[c]
<1>1. /\ pc[c] = "written" /\ pc[c] \in Busy /\ config' = draft /\ Goes(c, "published")
      /\ published' = [p \in Parts |-> IF p \in Reached(j.op) THEN Target(c) ELSE published[p]]
      /\ suspect' = suspect \ Reached(j.op) /\ relic' = {}
      /\ UNCHANGED <<session, sources, lock, job, seen, before, draft, agreed>>
  BY DEF Publish, Busy
<1>2. /\ lock = c /\ IsJob(j) /\ pc[c] # "idle" /\ Written(j) /\ IsDeployment(Found)
      /\ Backed(before.suspect, before.relic, before.published, Found) /\ pc'[c] = "published"
  BY <1>1, AtWork DEF Holding
<1>3. /\ Target(c) = Deployed' /\ Deployed'.config = NewConfig(j, Found.config)
      /\ Deployed'.sources = sources
  BY <1>1, <1>2 DEF Written, Target, Deployed
<1>4. IsDeployment(Deployed')
  BY <1>1, <1>2, NewAreTyped DEF Written, IsDeployment, Deployed, Record
<1>5. Types'
  BY <1>1, <1>2, <1>4, MoveIsTyped DEF IInv, Types, Busy
<1>6. Backed(suspect', relic', published', Deployed')
  <2>1. published'["client"] = Deployed'
    BY <1>1, <1>3 DEF Parts, Reached
  <2>2. CASE j.op = "template"
    <3>1. /\ published'["server"] = published["server"]
          /\ "server" \notin suspect' => "server" \notin suspect
      BY <1>1, <2>2 DEF Parts, Reached
    <3>2. sources = Found.sources
      BY <1>2, <2>2, OnePartChanges DEF Written, SourceOps
    <3>3. ASSUME "server" \notin suspect'
          PROVE  /\ SameServer(published["server"].config, NewConfig(j, Found.config))
                 /\ published["server"].sources.server = Found.sources.server
      BY <1>2, <2>2, <3>1, <3>3, TemplateKeepsServer DEF Written, Backed, IsDeployment
    <3> QED BY <1>3, <2>1, <3>1, <3>2, <3>3 DEF Backed
  <2>3. CASE j.op # "template"
    <3>1. published'["server"] = Deployed'
      BY <1>1, <1>3, <2>3 DEF Parts, Reached
    <3> QED BY <2>1, <3>1 DEF Backed, SameServer
  <2> QED BY <2>2, <2>3
<1>7. Holding(c)'
  BY <1>1, <1>2, <1>6 DEF Holding, Written, Published, Found
<1> QED BY <1>1, <1>2, <1>5, <1>7, WithTheLock DEF IInv

LEMMA SucceedStep ==
    ASSUME IInv, NEW c \in Commands, Succeed(c)
    PROVE  IInv'
<1> DEFINE j == job[c]
<1>1. /\ pc[c] = "published" /\ pc[c] \in Busy /\ Goes(c, "done") /\ lock' = NoOne
      /\ agreed' = Applied(j, agreed)
      /\ suspect' \in {suspect, suspect \ {"daemon"}} /\ relic' = relic
      /\ UNCHANGED <<session, config, sources, published, job, seen, before>>
  BY DEF Succeed, Leaves, Busy
<1>2. lock = c /\ IsJob(j) /\ pc[c] # "idle" /\ Published(j) /\ Found = Record(Found.config, Found.sources)
  BY <1>1, AtWork DEF Holding
<1>3. agreed' = Deployed'
  <2>1. Applied(j, Record(Found.config, Found.sources))
          = Record(NewConfig(j, Found.config), NewSources(j, Found.sources))
    BY <1>2, AppliedInParts
  <2>2. agreed' = Applied(j, Record(Found.config, Found.sources))
    BY <1>1, <1>2 DEF Published
  <2> QED BY <1>1, <1>2, <2>1, <2>2 DEF Published, Record, Deployed
<1>4. Backed(suspect', relic', published', Deployed')
  BY <1>1, <1>2 DEF Published, Backed, Deployed
<1>5. Types'
  BY <1>1, <1>2, MoveIsTyped DEF IInv, Types, Deployed
<1> QED BY <1>1, <1>3, <1>4, <1>5, GivingUpTheLock DEF IInv

LEMMA SettleFailsStep ==
    ASSUME IInv, NEW c \in Commands, SettleFails(c)
    PROVE  IInv'
<1> DEFINE j == job[c]
           reverts == j.op \in ConfigOps \cup {"edit", "clear"}
<1>1. /\ pc[c] = "published" /\ pc[c] \in Busy /\ Goes(c, "undo")
      /\ UNCHANGED <<session, sources, lock, job, seen, before, draft, agreed>>
  BY DEF SettleFails, Busy
<1>2. /\ lock = c /\ IsJob(j) /\ pc[c] # "idle" /\ Published(j) /\ IsDeployment(Found)
      /\ Found = Record(Found.config, Found.sources)
      /\ Backed(before.suspect, before.relic, before.published, Found) /\ pc'[c] = "undo"
  BY <1>1, AtWork DEF Holding
<1>3. j.op \notin SourceOps => sources = Found.sources
  BY <1>2, OnePartChanges DEF Published
<1>4. CASE reverts
  <2>1. /\ config' = Found.config /\ published' = before.published
        /\ suspect' \in {before.suspect, before.suspect \ {"daemon"}} /\ relic' = before.relic
    BY <1>4 DEF SettleFails, Found
  <2>2. IsDeployment(Deployed')
    BY <1>1, <1>2, <2>1 DEF IInv, Types, IsDeployment, Deployed, Record
  <2>3. Types'
    BY <1>1, <1>2, <2>2, MoveIsTyped DEF IInv, Types, Busy
  <2>4. Holding(c)'
    BY <1>1, <1>2, <1>3, <2>1 DEF Holding, Published, Undoing, Found, Backed
  <2> QED BY <1>1, <1>2, <2>3, <2>4, WithTheLock DEF IInv
<1>5. CASE ~reverts
  <2>1. /\ config' = config /\ published' = published /\ suspect' = suspect
        /\ relic' = IF j.op = "list" THEN {j.kind} ELSE relic
    BY <1>5 DEF SettleFails
  <2>2. config = Found.config
    BY <1>2, <1>5, OnePartChanges DEF Published
  <2>3. Types'
    BY <1>1, <1>2, <2>1, MoveIsTyped DEF IInv, Types, Deployed, Busy
  <2>4. Backed(suspect', relic', published', Record(config, Found.sources))
    <3>1. CASE j.op = "list"
      <4>1. /\ j.kind \in SourceNames \ {"server"} /\ IsSources(Found.sources)
            /\ sources = [Found.sources EXCEPT ![j.kind] = Changed(@, j.items, j.add)]
        BY <1>2, <3>1, ListsAreSources DEF Published, NewSources, IsJob, IsDeployment
      <4>2. \A s \in SourceNames \ {j.kind} : sources[s] = Found.sources[s]
        BY <4>1 DEF IsSources
      <4>3. "server" \in SourceNames \ {j.kind}
        BY <4>1 DEF SourceNames, NoSources
      <4>4. Backed(suspect, {}, published, Deployed)
        BY <1>2 DEF Published
      <4> QED BY <2>1, <3>1, <4>2, <4>3, <4>4 DEF Backed, Deployed, Record
    <3>2. CASE j.op # "list"
      <4>1. sources = Found.sources
        BY <1>2, <1>3, <1>5, <3>2, JobOps DEF SourceOps, ConfigOps
      <4> QED BY <1>2, <2>1, <3>2, <4>1 DEF Published, Deployed, Record
    <3> QED BY <3>1, <3>2
  <2>5. Holding(c)'
    BY <1>1, <1>2, <1>3, <2>1, <2>2, <2>4 DEF Holding, Published, Undoing, Found
  <2> QED BY <1>1, <1>2, <2>3, <2>5, WithTheLock DEF IInv
<1> QED BY <1>4, <1>5

LEMMA RecoveryFailsStep ==
    ASSUME IInv, NEW c \in Commands, RecoveryFails(c)
    PROVE  IInv'
<1> DEFINE j == job[c]
<1>1. /\ pc[c] = "published" /\ pc[c] \in Busy /\ Goes(c, "undo") /\ suspect' = Left
      /\ agreed' = [agreed EXCEPT !.config = config]
      /\ UNCHANGED <<session, config, sources, published, lock, job, seen, before>>
  BY DEF RecoveryFails, Busy
<1>2. /\ lock = c /\ IsJob(j) /\ pc[c] # "idle" /\ Published(j)
      /\ Found = Record(Found.config, Found.sources)
      /\ Backed(before.suspect, before.relic, before.published, Found) /\ pc'[c] = "undo"
  BY <1>1, AtWork DEF Holding
<1>3. j.op \notin SourceOps => sources = Found.sources
  BY <1>2, OnePartChanges DEF Published
<1>4. agreed' = Record(config, Found.sources)
  <2>1. agreed = Record(Found.config, Found.sources)
    BY <1>2 DEF Published
  <2> QED BY <1>1, <2>1 DEF Record
<1>5. Types'
  BY <1>1, <1>2, MoveIsTyped DEF IInv, Types, Deployed, Busy
<1>6. Holding(c)'
  BY <1>1, <1>2, <1>3, <1>4 DEF Holding, Undoing, Found, Backed, Left, Parts
<1> QED BY <1>1, <1>2, <1>5, <1>6, WithTheLock DEF IInv

LEMMA UndoStep ==
    ASSUME IInv, NEW c \in Commands, Undo(c)
    PROVE  IInv'
<1>1. /\ pc[c] = "undo" /\ pc[c] \in Busy /\ Goes(c, "done") /\ lock' = NoOne
      /\ sources' = IF job[c].op \in SourceOps THEN Found.sources ELSE sources
      /\ UNCHANGED <<session, config, published, job, seen, before, agreed, suspect, relic>>
  BY DEF Undo, Leaves, Busy, Found
<1>2. lock = c /\ pc[c] # "idle" /\ Undoing(job[c]) /\ IsDeployment(Found)
  BY <1>1, AtWork DEF Holding
<1>3. Deployed' = Record(config, Found.sources)
  BY <1>1, <1>2 DEF Undoing, Deployed, Record
<1>4. IsDeployment(Deployed')
  BY <1>2, <1>3 DEF IInv, Types, IsDeployment, Deployed, Record
<1>5. Types'
  BY <1>1, <1>2, <1>4, MoveIsTyped DEF IInv, Types
<1> QED BY <1>1, <1>2, <1>3, <1>5, GivingUpTheLock DEF IInv, Undoing

LEMMA UndoFailsStep ==
    ASSUME IInv, NEW c \in Commands, UndoFails(c)
    PROVE  IInv'
<1>1. /\ pc[c] = "undo" /\ pc[c] \in Busy /\ Goes(c, "done") /\ lock' = NoOne
      /\ agreed' = Deployed /\ suspect' = suspect \cup Parts
      /\ UNCHANGED <<session, config, sources, published, job, seen, before>>
  BY DEF UndoFails, Leaves, Busy
<1>2. lock = c /\ pc[c] # "idle"
  BY <1>1, AtWork
<1>3. Types'
  BY <1>1, <1>2, MoveIsTyped DEF IInv, Types, Deployed
<1> QED BY <1>1, <1>3, GivingUpTheLock DEF IInv, Deployed, Backed, Parts

LEMMA CrashStep ==
    ASSUME IInv, NEW c \in Commands, Crash(c)
    PROVE  IInv'
<1> DEFINE j == job[c]
           sourcesLeft == pc[c] \in {"written", "undo", "entered"} /\ j.op \in SourceOps
<1>1. /\ lock = c /\ Goes(c, "done") /\ lock' = NoOne /\ agreed' = Deployed
      /\ UNCHANGED <<session, config, sources, published, job, seen, before, relic>>
  BY DEF Crash, Leaves
<1>2. /\ pc[c] \in Busy /\ IsJob(j) /\ pc[c] # "idle" /\ Holding(c)
      /\ Found = Record(Found.config, Found.sources)
  BY <1>1, WhoHolds, AtWork DEF IInv
<1>3. CASE sourcesLeft
  <2>1. Parts \subseteq suspect'
    BY <1>3 DEF Crash
  <2> QED
    <3>1. Types'
      BY <1>1, <1>2, MoveIsTyped DEF IInv, Types, Deployed
    <3> QED BY <1>1, <2>1, <3>1, GivingUpTheLock DEF IInv, Deployed, Backed, Parts
<1>4. CASE ~sourcesLeft
  <2>1. suspect \subseteq suspect'
    BY DEF Crash
  <2>2. Backed(suspect, relic, published, Deployed)
    <3>1. CASE pc[c] = "published"
      BY <1>2, <3>1 DEF Holding, Published
    <3>2. CASE pc[c] # "published"
      <4>1. j.op \notin SourceOps
        BY <1>2, <1>4, <3>2 DEF Busy
      <4>2. CASE pc[c] = "entered"
        BY <1>2, <4>1, <4>2 DEF Holding, Entered, Deployed, Record, SourceOps
      <4>3. CASE pc[c] = "written"
        <5>1. sources = Found.sources
          BY <1>2, <4>1, <4>3, OnePartChanges DEF Holding, Written
        <5> QED BY <1>2, <4>3, <5>1 DEF Holding, Written, Deployed, Record
      <4>4. CASE pc[c] = "undo"
        BY <1>2, <4>1, <4>4 DEF Holding, Undoing, Deployed, Record
      <4> QED BY <1>2, <3>2, <4>2, <4>3, <4>4 DEF Busy
    <3> QED BY <3>1, <3>2
  <2>3. Backed(suspect', relic', published', Deployed')
    BY <1>1, <2>1, <2>2 DEF Backed, Deployed
  <2>4. Types'
    BY <1>1, <1>2, MoveIsTyped DEF IInv, Types, Deployed
  <2> QED BY <1>1, <2>3, <2>4, GivingUpTheLock DEF IInv, Deployed
<1> QED BY <1>3, <1>4

(* The daemon's restart and a stutter leave all of it alone. *)
LEMMA NothingMoves ==
    ASSUME IInv,
           UNCHANGED <<session, config, sources, published, lock, pc, job, seen, before, draft,
                       agreed, relic>>,
           suspect' \in {suspect, suspect \ {"daemon"}}
    PROVE  IInv'
<1>1. Types'
  BY DEF IInv, Types, Deployed
<1>2. Free'
  BY DEF IInv, Free, Deployed, Backed
<1>3. ASSUME NEW c \in Commands, lock' = c PROVE Holding(c)'
  <2>1. Holding(c)
    BY <1>3 DEF IInv, Inside
  <2> QED BY <2>1 DEF Holding, Entered, Written, Published, Undoing, Found, PartlyCleared, Deployed,
                      Backed, Record
<1> QED BY <1>1, <1>2, <1>3 DEF IInv, Inside

-----------------------------------------------------------------------------
LEMMA NextHolds == IInv /\ [Next]_vars => IInv'
<1> SUFFICES ASSUME IInv, [Next]_vars PROVE IInv'
  OBVIOUS
<1>1. ASSUME NEW c \in Commands, NEW j \in session.jobs, Ask(c, j) PROVE IInv'
  BY <1>1, AskStep
<1>2. ASSUME NEW c \in Commands, GiveUp(c) \/ Refuse(c) \/ NothingToDo(c) PROVE IInv'
  BY <1>2, EndsUnlocked DEF GiveUp, Refuse, NothingToDo
<1>3. ASSUME NEW c \in Commands, Enter(c) PROVE IInv'
  BY <1>3, EnterStep
<1>4. ASSUME NEW c \in Commands, WriteSource(c) PROVE IInv'
  BY <1>4, WriteSourceStep
<1>5. ASSUME NEW c \in Commands, WriteSourceFails(c) PROVE IInv'
  BY <1>5, GivesUpUnchanged DEF WriteSourceFails
<1>6. ASSUME NEW c \in Commands, MoveAway(c) PROVE IInv'
  BY <1>6, MoveAwayStep
<1>7. ASSUME NEW c \in Commands, MoveAwayFails(c) \/ Rejected(c) PROVE IInv'
  BY <1>7, TurnsBack DEF MoveAwayFails, Rejected
<1>8. ASSUME NEW c \in Commands, Prepare(c) PROVE IInv'
  BY <1>8, PrepareStep
<1>9. ASSUME NEW c \in Commands, Publish(c) PROVE IInv'
  BY <1>9, PublishStep
<1>10. ASSUME NEW c \in Commands, Succeed(c) PROVE IInv'
  BY <1>10, SucceedStep
<1>11. ASSUME NEW c \in Commands, SettleFails(c) PROVE IInv'
  BY <1>11, SettleFailsStep
<1>12. ASSUME NEW c \in Commands, RecoveryFails(c) PROVE IInv'
  BY <1>12, RecoveryFailsStep
<1>13. ASSUME NEW c \in Commands, Undo(c) PROVE IInv'
  BY <1>13, UndoStep
<1>14. ASSUME NEW c \in Commands, UndoFails(c) PROVE IInv'
  BY <1>14, UndoFailsStep
<1>15. ASSUME NEW c \in Commands, Crash(c) PROVE IInv'
  BY <1>15, CrashStep
<1>16. CASE DaemonRestarts
  BY <1>16, NothingMoves DEF DaemonRestarts
<1>17. CASE UNCHANGED vars
  BY <1>17, NothingMoves DEF vars
<1> QED BY <1>1, <1>2, <1>3, <1>4, <1>5, <1>6, <1>7, <1>8, <1>9, <1>10, <1>11, <1>12, <1>13, <1>14,
           <1>15, <1>16, <1>17 DEF Next, Step

LEMMA Inductive == Spec => []IInv
BY InitHolds, NextHolds, PTL DEF Spec

-----------------------------------------------------------------------------
(* One command at a time is between taking the lock and giving it back,    *)
(* and configuration and sources are whole (OperationLock).                *)
THEOREM TypeCorrect == Spec => []Types
<1>1. IInv => Types
  BY DEF IInv
<1> QED BY <1>1, Inductive, PTL

(* Whatever commands race, fail and crash: between them disk holds what    *)
(* the successful ones make of it, one after the other (override edit and  *)
(* clear, with_list_transaction, commit_config_change).                    *)
THEOREM EditsAreSerial == Spec => []EditsSerialize
<1>1. IInv => EditsSerialize
  BY DEF IInv, Free, EditsSerialize, Settled
<1> QED BY <1>1, Inductive, PTL

(* ... and what is published was generated from it, for clients and for    *)
(* the server, unless a crash or a failed recovery left them apart; and    *)
(* but for the one list that a list command took back when its storage     *)
(* step failed after its files were published (regenerate_locked,          *)
(* with_list_transaction, apply_transaction_locked).                       *)
THEOREM PublishedIsCurrent == Spec => []PublishedFromSources
<1>1. ASSUME IInv, Settled PROVE PublishedFromSources
  <2>1. Backed(suspect, relic, published, Deployed) /\ IsSources(sources)
    BY <1>1 DEF IInv, Free, Settled, Types, IsDeployment, Deployed
  <2>2. ASSUME "client" \notin suspect
        PROVE  /\ ServedConfig = config
               /\ \A s \in SourceNames \ ({"server"} \cup relic) : ServedSources[s] = sources[s]
    BY <2>1, <2>2 DEF Backed, Deployed, ServedConfig, ServedSources
  <2>3. ASSUME "server" \notin suspect
        PROVE  ServerFile(published["server"].config, published["server"].sources, Kernel)
                 = ServerFile(config, sources, Kernel)
    BY <2>1, <2>3, ServerIgnoresTemplate DEF Backed, Deployed
  <2> QED BY <2>2, <2>3 DEF PublishedFromSources
<1>2. IInv => PublishedFromSources
  BY <1>1 DEF PublishedFromSources
<1> QED BY <1>2, Inductive, PTL
================================================================================
