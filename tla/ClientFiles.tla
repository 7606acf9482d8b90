------------------------------ MODULE ClientFiles ------------------------------
(***************************************************************************)
(* The commands that change what subscribers are served: the override      *)
(* editor and its clear (src/src/cli/commands/config.rs), the rule lists   *)
(* and registered rule sets (rule.rs, ruleset.rs), the template switch,    *)
(* the configuration wizard's commit and regenerate.                       *)
(*                                                                         *)
(* Each works on a source, the configuration or a file below etc/sbctl,    *)
(* and publishes what ClientProfiles generates from all of them.  How a    *)
(* publication writes its files one by one and takes them back is          *)
(* DeploymentTransaction's; here it is one step.                           *)
(***************************************************************************)
EXTENDS SubscriptionService

CONSTANTS Commands, NoOne,
          Sessions,        \* what a behaviour starts from, and may be asked to do
          MaxFaults        \* failing steps and crashes in one behaviour

VARIABLES
    session,      \* one of Sessions
    config,       \* the configuration on disk
    sources,      \* override documents and rule lists on disk
    published,    \* for clients and server, what the published files were generated from
    daemon,       \* the configuration the sbctl daemon was started with
    lock,         \* the operation lock
    pc, job,      \* per command
    seen,         \* configuration and sources the command's dialogue showed
    before,       \* what the command will put back
    draft,        \* the configuration a command is about to publish
    faults,
    agreed,       \* history: the effect of the successful commands, one by one
    suspect,      \* history: what a crash or a failed recovery left behind: parts, and
                  \* the daemon when its restart may not have come
    relic         \* history: the list a failed list command took back while the files
                  \* generated from it stayed

vars == <<session, config, sources, published, daemon, lock, pc, job, seen, before, draft, faults,
          agreed, suspect, relic>>

Kernel == session.kernel
Parts == {"client", "server"}
Deployed == [config |-> config, sources |-> sources]

Left == Parts \cup {"daemon"}

NoJob == [op |-> "none"]
SourceOps == {"edit", "clear", "list"}
ConfigOps == {"extras", "template", "wizard"}

ConfigFields == {"mode", "template", "rules", "fakeIp", "protocols", "hopping", "ipv4Only",
                 "extras"}
SourceNames == DOMAIN NoSources

IsConfig(c) == c = [f \in ConfigFields |-> c[f]]

(* What a command line or a dialogue can ask for. *)
IsJob(j) ==
    /\ j.op \in SourceOps \cup ConfigOps \cup {"regenerate"}
    /\ j.op = "edit" => j.target \in SourceNames
    /\ j.op = "list" => j.kind \in RuleKinds
    /\ j.op = "wizard" => j.topic \in ConfigFields

ASSUME ClientFilesAssumption ==
    /\ NoOne \notin Commands
    /\ \A s \in Sessions : IsConfig(s.config) /\ \A j \in s.jobs : IsJob(j)

(* Mutant: the wizard publishes and leaves the daemon as it is. *)
RestartsForEdits(j) == j.op = "edit"

(* The commands that restart the services when they have published. *)
Restarts(j) ==
    \/ j.op \in {"edit", "wizard"}
    \/ j.op = "clear" /\ "server" \in j.targets

-----------------------------------------------------------------------------
(***************************************************************************)
(* What a job makes of a deployment, and what it needs to find.            *)
(***************************************************************************)
Changed(set, items, add) == IF add THEN set \cup items ELSE set \ items

WithoutSet(extras, name) == SelectSeq(extras, LAMBDA e : e.name # name)
Registered(extras, entry) ==
    IF \E i \in DOMAIN extras : extras[i].name = entry.name
    THEN [i \in DOMAIN extras |-> IF extras[i].name = entry.name THEN entry ELSE extras[i]]
    ELSE Append(extras, entry)

Applied(j, d) ==
    CASE j.op = "edit" -> [d EXCEPT !.sources[j.target] = Changed(@, j.items, j.add)]
      [] j.op = "list" -> [d EXCEPT !.sources[j.kind] = Changed(@, j.items, j.add)]
      [] j.op = "clear" -> [d EXCEPT !.sources = [s \in DOMAIN @ |->
                                         IF s \in j.targets THEN {} ELSE @[s]]]
      [] j.op = "extras" -> [d EXCEPT !.config.extras =
                                IF j.add THEN Registered(@, j.entry)
                                ELSE WithoutSet(@, j.entry.name)]
      [] j.op = "template" -> [d EXCEPT !.config.template = j.to]
      [] j.op = "wizard" -> [d EXCEPT !.config = [@ EXCEPT ![j.topic] = j.answer]]
      [] j.op = "regenerate" -> d

(* Mutant: the document is not read again under the lock. *)
OutdatedUnasked(c) == job[c].op = "wizard" /\ config # seen[c].config

(* The comparison under the lock with what the dialogue showed: the editor *)
(* its document, the wizard the configuration; the rest have no dialogue.  *)
Outdated(c) ==
    CASE job[c].op = "edit" -> sources[job[c].target] # seen[c].sources[job[c].target]
      [] job[c].op = "wizard" -> config # seen[c].config
      [] OTHER -> FALSE

(* The store refuses a name twice, and the name of a set of the template   *)
(* or of a Mihomo provider.                                                *)
Valid(c) ==
    LET names == [i \in DOMAIN c.extras |-> c.extras[i].name]
    IN  /\ IsInjective(names)
        /\ Tags(names) \cap (TemplateTags(c.template) \cup Tags(ReviewSets)) = {}
        /\ c.protocols # {}

(* A job that finds its work done, or nothing to work on. *)
AlreadyDone(c) == job[c].op \in {"list", "template"} /\ Applied(job[c], Deployed) = Deployed
Unknown(c) ==
    job[c].op = "extras" /\ ~job[c].add /\ Applied(job[c], Deployed) = Deployed

(* The real kernel is asked about the server except by a template switch,  *)
(* and about the full profile where the operator added to it.  Unchanged   *)
(* files are not asked about again: they were accepted when published.     *)
Acceptable(op, d) ==
    /\ Generates(d.config, d.sources, Kernel)
    /\ op = "template" \/ ServerAccepted(d.config, d.sources, Kernel)
    /\ Customised(d.config, d.sources) \/ op = "template"
          => FullAccepted(d.config, d.sources, Kernel)

-----------------------------------------------------------------------------
Init ==
    /\ session \in Sessions
    /\ config = session.config
    /\ sources = NoSources
    /\ published = [p \in Parts |-> Deployed]
    /\ daemon = config
    /\ lock = NoOne
    /\ pc = [c \in Commands |-> "idle"]
    /\ job = [c \in Commands |-> NoJob]
    /\ seen = [c \in Commands |-> Deployed]
    /\ before = [deployed |-> Deployed, published |-> published, suspect |-> {}, relic |-> {}]
    /\ draft = config
    /\ faults = 0
    /\ agreed = Deployed
    /\ suspect = {}
    /\ relic = {}

Goes(c, to) == pc' = [pc EXCEPT ![c] = to]
Leaves(c) == Goes(c, "done") /\ lock' = NoOne

(* A step fails only in the sessions that look at failures. *)
Fault == faults < session.faults /\ faults < MaxFaults /\ faults' = faults + 1

(* The command is given; an editor or a prompt shows what is there now.    *)
Ask(c, j) ==
    /\ pc[c] = "idle" /\ c \in session.commands
    /\ Goes(c, "asked")
    /\ job' = [job EXCEPT ![c] = j]
    /\ seen' = [seen EXCEPT ![c] = Deployed]
    /\ UNCHANGED <<session, daemon, config, sources, published, lock, before, draft, faults,
                   agreed, suspect, relic>>

(* Editor or prompt are left without saving, the download fails. *)
GiveUp(c) ==
    /\ pc[c] = "asked" /\ Fault
    /\ Goes(c, "done")
    /\ UNCHANGED <<session, daemon, config, sources, published, lock, job, seen, before, draft,
                   agreed, suspect, relic>>

Refuse(c) ==
    /\ pc[c] = "asked" /\ lock = NoOne
    /\ Outdated(c) \/ Unknown(c)
    /\ Goes(c, "done")
    /\ UNCHANGED <<session, daemon, config, sources, published, lock, job, seen, before, draft,
                   faults, agreed, suspect, relic>>

NothingToDo(c) ==
    /\ pc[c] = "asked" /\ lock = NoOne
    /\ AlreadyDone(c)
    /\ Goes(c, "done")
    /\ UNCHANGED <<session, daemon, config, sources, published, lock, job, seen, before, draft,
                   faults, agreed, suspect, relic>>

Enter(c) ==
    /\ pc[c] = "asked" /\ lock = NoOne
    /\ ~Outdated(c) /\ ~Unknown(c) /\ ~AlreadyDone(c)
    /\ lock' = c
    /\ before' = [deployed |-> Deployed, published |-> published, suspect |-> suspect,
                  relic |-> relic]
    /\ Goes(c, IF job[c].op = "regenerate" THEN "written" ELSE "entered")
    /\ draft' = config
    /\ UNCHANGED <<session, daemon, config, sources, published, job, seen, faults, agreed, suspect,
                   relic>>

(* The editor writes the document as it was shown with the change made in  *)
(* it; a list command adds to the list it reads now.                       *)
WriteSource(c) ==
    /\ pc[c] = "entered" /\ job[c].op \in {"edit", "list"}
    /\ LET base == IF job[c].op = "edit" THEN seen[c] ELSE Deployed
           source == IF job[c].op = "edit" THEN job[c].target ELSE job[c].kind
       IN  sources' = [sources EXCEPT ![source] = Applied(job[c], base).sources[source]]
    /\ Goes(c, "written")
    /\ UNCHANGED <<session, daemon, config, published, lock, job, seen, before, draft, faults,
                   agreed, suspect, relic>>

WriteSourceFails(c) ==
    /\ pc[c] = "entered" /\ job[c].op \in {"edit", "list"} /\ Fault
    /\ Leaves(c)
    /\ UNCHANGED <<session, daemon, config, sources, published, job, seen, before, draft,
                   agreed, suspect, relic>>

(* clear: the documents are moved aside one at a time. *)
MoveAway(c) ==
    /\ pc[c] = "entered" /\ job[c].op = "clear"
    /\ LET left == {t \in job[c].targets : sources[t] # {}}
       IN  IF left = {}
           THEN Goes(c, "written") /\ UNCHANGED sources
           ELSE /\ \E t \in left : sources' = [sources EXCEPT ![t] = {}]
                /\ UNCHANGED pc
    /\ UNCHANGED <<session, daemon, config, published, lock, job, seen, before, draft, faults,
                   agreed, suspect, relic>>

MoveAwayFails(c) ==
    /\ pc[c] = "entered" /\ job[c].op = "clear" /\ Fault
    /\ Goes(c, "undo")
    /\ UNCHANGED <<session, daemon, config, sources, published, lock, job, seen, before, draft,
                   agreed, suspect, relic>>

(* Rule sets, template, wizard: the new configuration is made in memory. *)
Prepare(c) ==
    /\ pc[c] = "entered" /\ job[c].op \in ConfigOps
    /\ LET new == Applied(job[c], Deployed).config
       IN  IF Valid(new)
           THEN draft' = new /\ Goes(c, "written") /\ UNCHANGED lock
           ELSE Leaves(c) /\ UNCHANGED draft
    /\ UNCHANGED <<session, daemon, config, sources, published, job, seen, before, faults,
                   agreed, suspect, relic>>

(* Mutant: the sources are loaded before the lock is taken. *)
TargetAsShown(c) == [config |-> draft, sources |-> seen[c].sources]

Target(c) == [config |-> draft, sources |-> sources]
Reached(op) == IF op = "template" THEN {"client"} ELSE Parts

Publish(c) ==
    /\ pc[c] = "written"
    /\ Acceptable(job[c].op, Target(c))
    /\ config' = draft
    /\ published' = [p \in Parts |-> IF p \in Reached(job[c].op) THEN Target(c)
                                     ELSE published[p]]
    /\ suspect' = suspect \ Reached(job[c].op)
    /\ relic' = {}
    /\ Goes(c, "published")
    /\ UNCHANGED <<session, daemon, sources, lock, job, seen, before, draft, faults, agreed>>

(* Generation or a check refuses, or a file cannot be written. *)
Rejected(c) ==
    /\ pc[c] = "written"
    /\ \/ ~Acceptable(job[c].op, Target(c)) /\ UNCHANGED faults
       \/ Fault
    /\ Goes(c, "undo")
    /\ UNCHANGED <<session, daemon, config, sources, published, lock, job, seen, before, draft,
                   agreed, suspect, relic>>

(* Storage prepared, services restarted: the command reports success. *)
Succeed(c) ==
    /\ pc[c] = "published"
    /\ agreed' = Applied(job[c], agreed)
    /\ Leaves(c)
    /\ IF Restarts(job[c])
       THEN daemon' = config /\ suspect' = suspect \ {"daemon"}
       ELSE UNCHANGED <<daemon, suspect>>
    /\ UNCHANGED <<session, config, sources, published, job, seen, before, draft, faults, relic>>

(* Preparing the storage fails.  What went through a configuration         *)
(* transaction is taken back; regenerate and the list commands leave the   *)
(* new files in place, the latter although they take their list back.      *)
SettleFails(c) ==
    /\ pc[c] = "published" /\ Fault
    /\ Goes(c, "undo")
    /\ IF job[c].op \in ConfigOps \cup {"edit", "clear"}
       THEN /\ config' = before.deployed.config
            /\ published' = before.published
            /\ relic' = before.relic
            /\ IF Restarts(job[c])
               THEN daemon' = config' /\ suspect' = before.suspect \ {"daemon"}
               ELSE UNCHANGED daemon /\ suspect' = before.suspect
       ELSE /\ UNCHANGED <<config, published, daemon, suspect>>
            /\ relic' = IF job[c].op = "list" THEN {job[c].kind} ELSE relic
    /\ UNCHANGED <<session, sources, lock, job, seen, before, draft, agreed>>

(* The transaction itself cannot be taken back. *)
RecoveryFails(c) ==
    /\ pc[c] = "published" /\ job[c].op \in ConfigOps \cup {"edit", "clear"} /\ Fault
    /\ Goes(c, "undo")
    /\ suspect' = Left
    /\ daemon' \in {daemon, config}
    /\ agreed' = [agreed EXCEPT !.config = config]
    /\ UNCHANGED <<session, config, sources, published, lock, job, seen, before, draft, relic>>

(* The source is put back; what the command did not touch stays. *)
Undo(c) ==
    /\ pc[c] = "undo"
    /\ sources' = IF job[c].op \in SourceOps THEN before.deployed.sources ELSE sources
    /\ Leaves(c)
    /\ UNCHANGED <<session, daemon, config, published, job, seen, before, draft, faults, agreed,
                   suspect, relic>>

UndoFails(c) ==
    /\ pc[c] = "undo" /\ job[c].op \in SourceOps /\ Fault
    /\ Leaves(c)
    /\ agreed' = Deployed
    /\ suspect' = suspect \cup Parts
    /\ UNCHANGED <<session, daemon, config, sources, published, job, seen, before, draft, relic>>

(* The command dies with the lock: the kernel gives it back, the sources   *)
(* stay as they are.                                                       *)
Crash(c) ==
    /\ lock = c /\ Fault
    /\ Leaves(c)
    /\ agreed' = Deployed
    /\ suspect' = suspect
          \cup (IF pc[c] \in {"written", "undo", "entered"} /\ job[c].op \in SourceOps
                THEN Parts ELSE {})
          \cup (IF pc[c] = "published" /\ Restarts(job[c]) THEN {"daemon"} ELSE {})
    /\ IF pc[c] = "published" /\ Restarts(job[c]) THEN daemon' \in {daemon, config}
       ELSE UNCHANGED daemon
    /\ UNCHANGED <<session, config, sources, published, job, seen, before, draft, relic>>

Step(c) ==
    \/ \E j \in session.jobs : Ask(c, j)
    \/ GiveUp(c) \/ Refuse(c) \/ NothingToDo(c) \/ Enter(c)
    \/ WriteSource(c) \/ WriteSourceFails(c) \/ MoveAway(c) \/ MoveAwayFails(c) \/ Prepare(c)
    \/ Publish(c) \/ Rejected(c) \/ Succeed(c) \/ SettleFails(c) \/ RecoveryFails(c)
    \/ Undo(c) \/ UndoFails(c) \/ Crash(c)

(* systemd starts the daemon again, or the host does. *)
DaemonRestarts ==
    /\ daemon # config /\ session.faults > 0
    /\ daemon' = config
    /\ suspect' = suspect \ {"daemon"}
    /\ UNCHANGED <<session, config, sources, published, lock, pc, job, seen, before, draft,
                   faults, agreed, relic>>

Next == (\E c \in Commands : Step(c)) \/ DaemonRestarts

Spec == Init /\ [][Next]_vars

-----------------------------------------------------------------------------
(***************************************************************************)
(* Properties                                                              *)
(***************************************************************************)
Settled == lock = NoOne

(* What subscribers are served, and from which inputs. *)
ServedConfig == published["client"].config
ServedSources == published["client"].sources
ServedNames == GeneratedNames(ServedConfig) \cap ClientNames
Served(name) == Generated(name, ServedConfig, ServedSources, Kernel)

(* The configuration and the sources on disk are what the successful       *)
(* commands, applied one after the other, make of the first: no edit is    *)
(* lost under another command's and no failed command leaves a trace       *)
(* (override editor, clear, with_list_transaction, commit_config_change).  *)
EditsSerialize == Settled => Deployed = agreed

(* What is served was generated from what is on disk.  Three things set    *)
(* them apart, each until the next publication: a crash or a failed        *)
(* recovery, of all files (suspect), and a list command whose storage step *)
(* fails once its files are published, of the one list it takes back       *)
(* (relic).  The last is not what the import's comment says of a failure,  *)
(* "leave the previous lists and artifacts in place" (ruleset.rs): the     *)
(* lists are the previous ones and the artifacts the new; everything else, *)
(* the server file too, is from disk (with_list_transaction,               *)
(* regenerate_locked, commit_override_artifacts_locked).                   *)
PublishedFromSources ==
    Settled =>
        /\ "client" \notin suspect =>
              /\ ServedConfig = config
              /\ \A s \in SourceNames \ ({"server"} \cup relic) : ServedSources[s] = sources[s]
        /\ "server" \notin suspect =>
              ServerFile(published["server"].config, published["server"].sources, Kernel)
                  = ServerFile(config, sources, Kernel)

(* Every file that is served can be loaded by the client it is made for,   *)
(* whatever the template, the profile and the operator's additions:        *)
(* distinct rule sets, nothing named that it does not declare, and no      *)
(* feature its core does not take; the host's own kernel takes the full    *)
(* profile and the server file (sing_box_full, apply_rule_lists,           *)
(* select_full_profile).                                                   *)
ProfilesLoad ==
    Settled =>
        /\ \A name \in ServedNames :
              LET file == Served(name)
              IN  /\ file.nodes # {}
                  /\ Closed(file)
                  /\ file.sets.entries = Cardinality(file.sets.tags)
                  /\ name \in SingBoxNames =>
                        CoreAccepts(IF name = Full THEN Kernel ELSE MinorOf(name.version), file.features)
        /\ LET server == published["server"]
           IN  CoreAccepts(Kernel, ServerFile(server.config, server.sources, Kernel).features)

(* What the daemon answers with the files that are on disk. *)
Disk == {ArtifactName[f] : f \in GeneratedNames(ServedConfig)}
Token == Bare("token")
AnsweredAt(origin, request) == AnswerAt(origin, request, daemon, Disk, {Token})

Leads(url, reply) ==
    \A method \in {"GET", "HEAD"} :
        AnsweredAt(url.origin, [Get(url.credential, url.path) EXCEPT !.method = method]) = reply

RowLeads(row) ==
    /\ Leads(row.url, Delivered(row.format))
    /\ Leads(row.qr, Pictured(row.payload))
    /\ row.payload.url = row.url /\ row.import.url = row.url

PageLeads(c, credential) ==
    /\ CanRender(c)
    /\ \A row \in Rows(c, credential) : RowLeads(row)
    /\ \A k \in DOMAIN ClientSubscriptionMatrix : k \in DOMAIN ClientRows(c, credential)
    /\ \A rows \in Range(ClientRows(c, credential)) : rows \subseteq Rows(c, credential)

(* Nothing of a subscription goes out where nothing is encrypted, but the   *)
(* challenge does. *)
PlainPort == [scheme |-> "http", port |-> "80"]
OnlyChallenges ==
    daemon.mode = "direct" =>
        /\ AnsweredAt(PlainPort, Challenge(Token)).status = 200
        /\ \A path \in KnownPaths : AnsweredAt(PlainPort, Get(Default, path)) = Bodiless(404)

(* What `sbctl sub` shows for the configuration on disk and the overview   *)
(* page for the one the daemon runs with is what there is: every address   *)
(* and QR code leads to the file of its own format, for every credential   *)
(* that is accepted, no client is left without one, and every file has its *)
(* address.  Any other address is unknown, never unavailable, and a        *)
(* credential that is not accepted is told nothing                         *)
(* (available_subscription_matrix, parse_route, read_authorized,           *)
(* remove_stale_artifacts).                                                *)
OfferedIsServed ==
    (Settled /\ suspect \cap {"client", "daemon"} = {}) =>
        /\ AvailableSubscriptionMatrix(config) = GeneratedNames(ServedConfig)
        /\ PageLeads(config, Default)
        /\ Printed(config, {}, FALSE) # {}
        /\ Printed(config, {}, TRUE) = Rows(config, Default)
        /\ \A credential \in Accepted :
              /\ PageLeads(daemon, credential)
              /\ Leads(RouteUrl(daemon, credential, Index), Overview(daemon, credential))
        /\ LET answered(credential, path) == AnsweredAt(Origin(daemon.mode), Get(credential, path))
           IN  /\ \A path \in OddPaths : answered(Default, path) = Bodiless(404)
               /\ \A path \in KnownPaths :
                     /\ answered(Default, path).status # 503
                     /\ \A credential \in Credentials \ Accepted :
                           answered(credential, path) = Bodiless(404)
        /\ OnlyChallenges

(* The templates' promises, by class of traffic. *)
Lan == {"lan_address", "lan_name", "router"}
Domestic == {"cn_site", "small_cn_site", "cn_address", "small_ad"}
(* What only a downloaded rule set knows. *)
Unlisted(remote) == IF remote THEN {} ELSE {"small_cn_site", "small_ad", "wiki_mirror"}

BaselinePromise(remote, class) ==
    IF class \in (Lan \cup Domestic \cup {"portal"}) \ Unlisted(remote)
    THEN "Direct" ELSE "Selector"

PurposePromise(template, remote, class) ==
    CASE class \in Lan \cup {"portal"} -> "Direct"
      [] class \in {"ad", "small_ad"} \ Unlisted(remote) -> "Reject"
      [] class \in {"chatgpt", "sora", "x"} -> "Ai"
      [] class = "netflix" -> "Stream"
      [] class = "telegram" -> "Telegram"
      [] class \in {"google", "wiki_mirror"} \ Unlisted(remote) -> "Proxy"
      [] class \in Domestic \ Unlisted(remote) ->
            IF template = "split" THEN "Direct"
            ELSE IF class = "cn_address" THEN "Selector" ELSE "Proxy"
      [] OTHER -> "Selector"

Promise(name, class) ==
    LET remote == Remote(ServedConfig) /\ name # ClashLegacyFile
    IN  IF name \in SingBoxNames /\ ~Baseline(ServedConfig)
        THEN PurposePromise(ServedConfig.template, remote, class)
        ELSE BaselinePromise(remote, class)

(* What the operator decided: a list, a pin of the client's document, a    *)
(* registered rule set, in this order.                                     *)
PinsFor(name) == IF name \in SingBoxNames THEN ServedSources.singBox ELSE ServedSources.clash
SetsFor(name) ==
    IF ~Remote(ServedConfig) \/ name = ClashLegacyFile THEN {}
    ELSE {e \in Tags(ServedConfig.extras) :
            (e.client = "sing-box") = (name \in SingBoxNames)}
Word(to) == CASE to = "direct" -> "Direct" [] to = "proxy" -> "Selector" [] to = "reject" -> "Reject"

Decision(name, class) ==
    LET pins == {p \in PinsFor(name) : p.class = class}
        sets == {e \in SetsFor(name) : class \in ExtraContents[e.name]}
    IN  CASE class \in ServedSources.reject -> "Reject"
          [] class \notin ServedSources.reject /\ class \in ServedSources.proxy -> "Selector"
          [] class \notin ServedSources.reject \cup ServedSources.proxy
             /\ class \in ServedSources.direct -> "Direct"
          [] OTHER -> IF pins # {} THEN (CHOOSE p \in pins : TRUE).to
                      ELSE IF sets # {} THEN Word((CHOOSE e \in sets : TRUE).to)
                      ELSE Promise(name, class)

(* Every file of every version sends every class of traffic where the      *)
(* operator decided and else where the template promises: a list beats a   *)
(* document, a document a rule set, and those the template; LAN and portal *)
(* stay direct, what the purpose templates block is blocked by cores with  *)
(* and without actions (apply_rule_lists, apply_client_overrides,          *)
(* extra_rule_sets, TemplateSpec).                                         *)
RoutesAsPromised ==
    Settled =>
        \A name \in ServedNames :
            LET file == Served(name)
            IN  \A class \in Classes : Verdict(file, class) = Decision(name, class)

(* Who is asked for a name: names of the LAN only the local resolver, no   *)
(* name that is on no domestic list a domestic one, and under global no    *)
(* domestic name either; an exception never gets a fake address (the dns   *)
(* sections, extend_fake_ip_dns_rule, clash_fake_ip_filter).               *)
LocalResolvers == {"dns-local", "system"}
DomesticResolvers == {"dns-cn", "dns-cn-doh", "dns-direct", "domestic"}

NamesAskedAsPromised ==
    Settled =>
        \A name \in ServedNames :
            LET file == Served(name)
            IN  \A class \in Classes \ Addresses :
               LET asked == Resolver(file, class)
               IN  /\ class \in {"lan_name", "router"} => asked \in LocalResolvers
                   /\ asked \in DomesticResolvers =>
                         \/ class = "portal"
                         \/ /\ class \in Domestic \cup {"play"}
                            /\ name \in SingBoxNames => ServedConfig.template # "global"
                   /\ class \in ServedSources.fakeip => asked # "dns-fakeip"
================================================================================
