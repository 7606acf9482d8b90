---------------------------- MODULE ServiceAccess ----------------------------
(***************************************************************************)
(* Who can open what.  The root commands write files that two restricted   *)
(* accounts live on: sing-box reads the active configuration and the pair  *)
(* it names, the sbctl daemon reads the configuration, the artifacts and,  *)
(* in Direct mode, the pinned pair.  Neither may open what belongs to the  *)
(* other, and a third account may open nothing.                            *)
(*                                                                         *)
(* A command is the sequence of its steps, each with its effect on the     *)
(* owners and modes of the paths; any of them may fail, or be the last one *)
(* of a command that dies.  The Certbot hook publishes beside the command, *)
(* under the lock of the certificate directory only.                       *)
(* (config.rs, managed_fs.rs, managed_directory.rs, certificate.rs,        *)
(* lifecycle.rs, cli/commands/{install,config,mode,ruleset,email}.rs)      *)
(***************************************************************************)
EXTENDS Integers, SequencesExt

CONSTANTS
  Names,         \* other server names a self-signed pair may be for
  Host,          \* the subscription host, the name of the pinned pair
  Nothing,
  Courses,       \* bound: which commands may come first, second, ...
  MaxFailures,   \* bound: steps that fail and commands that die
  MaxRenewals    \* bound: runs of the Certbot hook

Services == {"sing-box", "sbctl"}
CommandKinds == {"install", "no start", "edit", "rule set", "regenerate", "switch", "update", "email"}
(* The server name is the subscription host's unless another was chosen,   *)
(* which Certbot's certificate would not fit.                              *)
Configs == [direct : BOOLEAN, cert : {"self"}, sni : Names \cup {Host}]
             \cup [direct : BOOLEAN, cert : {"domain"}, sni : {Host}]

(* The names are hostnames and addresses (validate_hostname): no label of   *)
(* them is empty, so none begins with a dot, as the lock's and the staging  *)
(* directory's do.                                                         *)
ASSUME AccessAssumption ==
  /\ Host \notin Names /\ Nothing \notin Names \cup {Host} \cup Configs
  /\ {".operation.lock", ".sbctl-generation"} \cap (Names \cup {Host}) = {}
  /\ Courses \in Seq(SUBSET CommandKinds)
  /\ MaxFailures \in Nat /\ MaxRenewals \in Nat

-----------------------------------------------------------------------------
(* Paths, owners and modes.  A path is the sequence of its components.     *)

Etc       == <<"etc-sbctl">>
KernelDir == <<"etc-sing-box">>
Data      == <<"data">>
Artifacts == Append(Data, "artifacts")
Webroot   == Append(Data, "acme-webroot")
Certs     == Append(Data, "certificates")
PairDir(n)     == Append(Certs, n)
Pair(n, which) == Append(PairDir(n), which)    \* "own" or "pinned"
Marker(n)      == Append(PairDir(n), "refresh-pending")
Temp     == Append(Certs, ".sbctl-generation") \* the hook's generation
TempPair == Append(Temp, "pair")

ConfigToml == Append(Etc, "config.toml")
EmailToml  == Append(Etc, "email.toml")
Active     == Append(KernelDir, "config.json")
Artifact   == Append(Artifacts, "artifact")
StateJson  == Append(Data, "state.json")
Ownership  == Append(Data, "ownership")
Lock       == Append(Data, ".operation.lock")
CertsLock  == Append(Certs, ".operation.lock")
Backups    == <<"backups", "point">>
Binary     == <<"usr-local-bin">>

PairNames == Names \cup {Host}
RootOnly  == {EmailToml, CertsLock, Backups} \cup {Marker(n) : n \in PairNames}
Pairs     == {Pair(n, which) : n \in PairNames, which \in {"own", "pinned"}}

Above(path) == {SubSeq(path, 1, i) : i \in 1..(Len(path) - 1)}
Inside(t)   == {path \in DOMAIN t : Certs \in Above(path)}
Folders     == {Certs, Temp} \cup {PairDir(n) : n \in PairNames}

(* Modes are written as in the code, with the octal digits read as decimal. *)
Attr(user, group, mode) == [user |-> user, group |-> group, mode |-> mode]
Bits == [digit \in 0..7 |->
          (IF digit \div 4 = 1 THEN {"r"} ELSE {})
            \cup (IF (digit \div 2) % 2 = 1 THEN {"w"} ELSE {})
            \cup (IF digit % 2 = 1 THEN {"x"} ELSE {})]
Sticky(attr) == attr.mode >= 1000

Policy(path) ==
  CASE path \in RootOnly -> Attr("root", "root", 600)
    [] path = Active     -> Attr("sing-box", "sing-box", 640)
    [] path = Binary     -> Attr("root", "root", 755)
    [] path \in Pairs    -> Attr("root", "sbctl-cert", 640)
    [] OTHER             -> Attr("sbctl", "sbctl", 600)

-----------------------------------------------------------------------------
(* The host: the attributes of what exists, the identities, the            *)
(* configuration on disk, the pair the active configuration names, whether *)
(* Certbot has issued, and what each service was started with.             *)

VARIABLES
  machine,
  cmd,        \* the command that holds the operation lock, or None
  todo,       \* the steps it has left
  hook,       \* where the Certbot hook is
  unfit,      \* no command has granted and started everything yet, or none
              \* since one died or could not finish its own recovery
  regranted,  \* a renewal was staged while a command that then failed gave
              \* the pairs to sing-box, or put their attributes back
  commands, failures, renewals

accessVars == <<machine, cmd, todo, hook, unfit, regranted, commands, failures, renewals>>

Empty == [path \in {} |-> Attr("root", "root", 600)]
Blank  == [tree |-> Empty, accounts |-> {}, grouped |-> FALSE, members |-> {},
          config |-> Nothing, named |-> Nothing, issued |-> FALSE,
          runs |-> [s \in Services |-> Nothing]]

Exists(h, path) == path \in DOMAIN h.tree
Known(h, attr) ==
  /\ attr.user \in h.accounts \cup {"root"}
  /\ attr.group \in h.accounts \cup {"root"} \cup (IF h.grouped THEN {"sbctl-cert"} ELSE {})

Groups(h, s) == {s} \cup (IF s \in h.members THEN {"sbctl-cert"} ELSE {})

Allowed(t, who, groups, path) ==
  LET attr == t[path]
  IN  Bits[IF who = attr.user THEN (attr.mode \div 100) % 10
           ELSE IF attr.group \in groups THEN (attr.mode \div 10) % 10
           ELSE attr.mode % 10]
Finds(t, who, groups, path) ==
  path \in DOMAIN t /\ \A dir \in Above(path) \cap DOMAIN t : "x" \in Allowed(t, who, groups, dir)
CanOpen(t, who, groups, path) ==
  Finds(t, who, groups, path) /\ "r" \in Allowed(t, who, groups, path)

(* A rename over a name needs its directory, and in a sticky one the file.  *)
CanReplace(t, who, groups, path) ==
  LET dir == Front(path)
  IN  /\ dir \in DOMAIN t /\ Finds(t, who, groups, dir)
      /\ {"w", "x"} \subseteq Allowed(t, who, groups, dir)
      /\ Sticky(t[dir]) /\ path \in DOMAIN t => who \in {t[path].user, t[dir].user}

-----------------------------------------------------------------------------
(* Writing.                                                                *)

(* What is written, over what is there. *)
Over(new, t) ==
  [path \in DOMAIN new \cup DOMAIN t |-> IF path \in DOMAIN new THEN new[path] ELSE t[path]]
At(path, attr) == [p \in {path} |-> attr]

(* Missing directories are made private, the file is put in place by rename *)
(* with its attributes already set. *)
Created(t, path) == Over(t, [dir \in Above(path) |-> Attr("root", "root", 700)])
Renamed(t, path, attr) == Over(At(path, attr), Created(t, path))

Enforced(h, path) == Policy(path).user \in h.accounts \cup {"root"}
CanWrite(h, path) == Enforced(h, path) => Known(h, Policy(path))
Written(h, path) == IF Enforced(h, path) THEN Policy(path) ELSE Attr("root", "root", 600)
(* Files of which none is above another, one after the other. *)
WriteAll(h, paths) ==
  [h EXCEPT !.tree =
     Over([path \in paths |-> Written(h, path)],
          Over(@, [dir \in UNION {Above(path) : path \in paths} |-> Attr("root", "root", 700)]))]
Write(h, path) == WriteAll(h, {path})
WriteRootOnly(h, path) == [h EXCEPT !.tree = Renamed(@, path, Attr("root", "root", 600))]

Opened(h, lock) ==
  IF Exists(h, lock) THEN h
  ELSE [h EXCEPT !.tree = Renamed(@, lock, Attr("root", "root", 600))]

SetAttr(h, paths, attr) ==
  [h EXCEPT !.tree = [path \in DOMAIN @ |-> IF path \in paths THEN attr ELSE @[path]]]
Chown(h, paths, user, group) ==
  [h EXCEPT !.tree = [path \in DOMAIN @ |->
     IF path \in paths THEN Attr(user, group, @[path].mode) ELSE @[path]]]
Chmod(h, paths, mode) ==
  [h EXCEPT !.tree = [path \in DOMAIN @ |->
     IF path \in paths THEN [@[path] EXCEPT !.mode = mode] ELSE @[path]]]

-----------------------------------------------------------------------------
(* Pairs: the directory is prepared, a generation is staged beside it, and *)
(* the two are exchanged unless nothing would change.                      *)

Staged(h, mode) == IF h.grouped THEN Attr("root", "sbctl-cert", mode)
                   ELSE Attr("root", "root", mode)
Prepare(h, n) ==
  LET made == [h EXCEPT !.tree = Created(@, Pair(n, "own"))]
      open == {Certs, PairDir(n)}
  IN  IF h.grouped THEN SetAttr(made, open, Attr("root", "sbctl-cert", 750))
      ELSE Chmod(made, open, 750)
Exchange(h, n, which, dir, pair, marked) ==
  LET exchanged == Over(At(PairDir(n), dir), Over(At(Pair(n, which), pair), h.tree))
  IN  [h EXCEPT !.tree = IF marked THEN Over(At(Marker(n), Attr("root", "root", 600)), exchanged)
                         ELSE exchanged]
WritePair(h, n, which, marked, renewed) ==
  LET ready == Opened(Prepare(h, n), CertsLock)
      pair  == Pair(n, which)
      same  == /\ ~renewed /\ Exists(ready, pair) /\ ready.tree[pair] = Staged(h, 640)
               /\ ready.tree[PairDir(n)] = Staged(h, 750)
  IN  IF same THEN ready
      ELSE Exchange(ready, n, which, Staged(h, 750), Staged(h, 640), marked)

(* The server configuration names the self-signed pair, which is made when *)
(* it is missing, the pinned one, or else Certbot's own. *)
EnsureOwn(h, n) == IF Exists(h, Pair(n, "own")) THEN h ELSE WritePair(h, n, "own", FALSE, TRUE)
NamedBy(h, c) ==
  IF c.cert = "self" THEN Pair(c.sni, "own")
  ELSE IF c.direct \/ Exists(h, Pair(Host, "pinned")) THEN Pair(Host, "pinned")
  ELSE Nothing

-----------------------------------------------------------------------------
(* prepare_daemon_storage, one step after the other.                       *)

StorageSteps(direct) ==
  <<"directories", "live files", "kernel directory", "kernel file">>
    \o (IF direct THEN <<"shared pairs">>
        ELSE <<"kernel pairs", "open folders", "readable pairs">>)

LiveFiles == {ConfigToml, EmailToml, StateJson, Ownership, Lock, Artifact}

Delegate(h) ==
  LET top == SetAttr(SetAttr(h, {Etc}, Attr("root", "sbctl", 750)), {Data}, Attr("root", "sbctl", 1771))
  IN  SetAttr(SetAttr(top, {Artifacts}, Attr("sbctl", "sbctl", 700)),
          {Webroot}, Attr("sbctl", "sbctl", 755))
EnforceLive(h) ==
  [h EXCEPT !.tree = [path \in DOMAIN @ |->
     IF path \in LiveFiles /\ Enforced(h, path) THEN Policy(path) ELSE @[path]]]
AllPairs(h) == Inside(h.tree) \cup {Certs}
ReadableEvery(h) == AllPairs(h) \ Folders

Readable(h) == AllPairs(h) \ (Folders \cup {CertsLock} \cup {Marker(n) : n \in PairNames})

Storage(h, part) ==
  CASE part = "directories"      -> Delegate(h)
    [] part = "live files"       -> EnforceLive(h)
    [] part = "kernel directory" ->
         Chmod(Chown(h, {KernelDir}, "root", "sing-box"), {KernelDir}, 750)
    [] part = "kernel file"      ->
         Chmod(Chown(h, {Active}, "sing-box", "sing-box"), {Active}, 640)
    [] part = "shared pairs"     -> Chown(h, AllPairs(h), "root", "sbctl-cert")
    [] part = "kernel pairs"     -> Chown(h, AllPairs(h), "root", "sing-box")
    [] part = "open folders"     -> Chmod(h, Folders, 755)
    [] part = "readable pairs"   -> Chmod(h, Readable(h), 640)

CanStore(h, part) ==
  CASE part = "directories" -> Known(h, Attr("root", "sbctl", 0))
    [] part = "kernel directory" -> "sing-box" \in h.accounts /\ Exists(h, KernelDir)
    [] part = "kernel file"      -> Exists(h, Active)
    [] part = "shared pairs"     -> Exists(h, Certs) => h.grouped
    [] OTHER -> TRUE

-----------------------------------------------------------------------------
(* The steps of the commands.                                              *)

Prerequisites(direct) ==
  <<<<"account", "sbctl">>, <<"account", "sing-box">>>>
    \o (IF direct THEN <<<<"group", Nothing>>, <<"member", "sbctl">>, <<"member", "sing-box">>>>
        ELSE <<>>)
StorageOf(direct) == [i \in 1..Len(StorageSteps(direct)) |-> <<"storage", StorageSteps(direct)[i]>>]
Granted(direct) == Prerequisites(direct) \o StorageOf(direct)
If(condition, steps) == IF condition THEN steps ELSE <<>>

(* Until Certbot has answered, the server of a domain deployment presents a *)
(* self-signed pair. *)
Presented(c, bootstrap) == IF bootstrap THEN [c EXCEPT !.cert = "self"] ELSE c
Published(c, server) == <<"publish", [config |-> c, server |-> server]>>
Generated(c) == If(c.cert = "self", <<<<"own", c.sni>>>>)

Install(c, start) ==
  LET bootstrap == start /\ c.direct /\ c.cert = "domain"
      server    == Presented(c, bootstrap)
  IN  Generated(server) \o <<<<"initialize", c>>, <<"binary", Nothing>>>>
      \o If(start, Prerequisites(c.direct) \o If(c.direct, <<<<"pin if issued", Nothing>>>>)
                     \o <<<<"state", Nothing>>>>)
      \o <<<<"activate", server>>>>
      \o If(start, Granted(c.direct) \o <<<<"restart", Nothing>>>>
                     \o If(c.direct, IF bootstrap THEN <<<<"obtain", Nothing>>, Published(c, c), <<"restart", Nothing>>>>
                                     ELSE <<<<"try obtain", Nothing>>>>)
                     \o <<<<"ownership", Nothing>>>>)

Edit(h, c) ==
  If(c.direct /\ h.issued, <<<<"pin if issued", Nothing>>>>)
    \o Generated(c) \o <<Published(c, c)>> \o Granted(c.direct) \o <<<<"restart", Nothing>>>>

Regenerate(c) == Generated(c) \o <<Published(c, c)>> \o StorageOf(c.direct)

Switch(h, c) ==
  LET obtain    == c.direct /\ ~Exists(h, Pair(Host, "pinned")) /\ ~h.issued
      bootstrap == obtain /\ c.cert = "domain"
  IN  Prerequisites(TRUE)
      \o If(h.issued /\ (c.direct \/ c.cert = "domain"), <<<<"pin if issued", Nothing>>>>)
      \o Generated(Presented(c, bootstrap))
      \o <<Published(c, Presented(c, bootstrap))>>
      \o StorageOf(c.direct) \o <<<<"restart", Nothing>>>>
      \o If(obtain, <<<<"obtain", Nothing>>, Published(c, c)>> \o StorageOf(c.direct)
                      \o <<<<"restart", Nothing>>>>)

Update(c) == <<<<"back up", Nothing>>, <<"binary", Nothing>>>> \o StorageOf(c.direct) \o <<<<"restart", Nothing>>>>

Plan(h, kind, c) ==
  CASE kind = "install"    -> Install(c, TRUE)
    [] kind = "no start"   -> Install(c, FALSE)
    [] kind = "edit"       -> Edit(h, c)
    [] kind = "rule set"   -> Regenerate(c)
    [] kind = "regenerate" -> Regenerate(c)
    [] kind = "switch"     -> Switch(h, c)
    [] kind = "update"     -> Update(c)
    [] kind = "email"      -> <<<<"email", Nothing>>>>

(* When each command may begin, and with which configuration. *)
IsInstalled(h) == Exists(h, ConfigToml)
May(h, kind, c) ==
  IF kind \in {"install", "no start"}
  THEN ~IsInstalled(h) /\ ~Exists(h, Artifacts) /\ ~Exists(h, Certs)
  ELSE /\ IsInstalled(h)
       /\ CASE kind = "edit" -> c.direct /\ ~h.config.direct =>
                                  h.issued \/ Exists(h, Pair(Host, "pinned"))
            [] kind = "switch" -> ~c.direct /\ c.cert = "domain" => h.issued
            [] OTHER -> c = h.config

-----------------------------------------------------------------------------
(* What a step does.                                                       *)

Publish(h, c, server) ==
  [WriteAll(h, {Artifact, ConfigToml, Active}) EXCEPT !.config = c, !.named = NamedBy(h, server)]
Initialize(h, c) ==
  LET g == WriteAll(h, {Artifact, ConfigToml})
  IN  [g EXCEPT !.config = c,
                !.tree = IF c.direct THEN Created(@, Append(Webroot, "challenge")) ELSE @]
Activate(h, server) == [Write(h, Active) EXCEPT !.named = NamedBy(h, server)]

Pin(h, renewed)   == WritePair(h, Host, "pinned", TRUE, renewed)
Obtain(h, renewed) ==
  LET served == IF Exists(h, Webroot) THEN h
                ELSE [h EXCEPT !.tree = Over(At(Webroot, Attr("root", "root", 755)), @)]
  IN  [Pin(served, renewed) EXCEPT !.issued = TRUE]

Restart(h, services) ==
  [h EXCEPT !.runs = [s \in Services |->
     IF s \in services THEN [groups |-> Groups(h, s), direct |-> h.config.direct] ELSE @[s]]]

(* Recovery.  A mode switch puts back the attributes it captured, the      *)
(* others write by the policy of each path. *)
RestoreFiles(h, saved) ==
  [WriteAll(h, {Artifact, ConfigToml, Active}) EXCEPT
     !.config = saved.config, !.named = saved.named]

RestoreByPolicy(h, saved) == RestoreFiles(h, saved)

Captured == {ConfigToml, Active, Artifact, Etc, KernelDir, Data, Artifacts, Webroot}
              \cup Folders \cup Pairs
RestoreAttributes(h, saved) ==
  LET gone == {path \in Captured \cap DOMAIN h.tree :
                 /\ path \notin DOMAIN saved.tree
                 /\ \A other \in DOMAIN h.tree :
                      path \in Above(other) => other \in Pairs \ DOMAIN saved.tree}
  IN  [h EXCEPT !.tree = [path \in DOMAIN @ \ gone |->
                            IF path \in Captured \cap DOMAIN saved.tree
                            THEN saved.tree[path] ELSE @[path]],
                !.config = saved.config, !.named = saved.named]

RestoreRelease(h, saved) ==
  LET pinned == Pair(Host, "pinned")
      files  == WriteAll(h, {Binary, ConfigToml, StateJson, Active, Artifact} \cap DOMAIN saved.tree)
  IN  IF ~saved.config.direct THEN files
      ELSE IF pinned \in DOMAIN saved.tree
      THEN LET back == WritePair(files, Host, "pinned", FALSE, TRUE)
           IN  Chown(back, AllPairs(back), "root", "sbctl-cert")
      ELSE [files EXCEPT !.tree = [path \in DOMAIN @ \ {pinned} |-> @[path]]]

RollBackInstall(h) ==
  LET kept == {Etc, Data, Lock} \cap DOMAIN h.tree
  IN  [h EXCEPT !.tree = [path \in kept |-> @[path]], !.config = Nothing, !.named = Nothing,
                !.runs = [s \in Services |-> Nothing]]

Do(h, step, renewed) ==
  LET arg == step[2]
  IN  CASE step[1] = "account" -> [h EXCEPT !.accounts = @ \cup {arg}]
        [] step[1] = "group"   -> [h EXCEPT !.grouped = TRUE]
        [] step[1] = "member"  -> [h EXCEPT !.members = @ \cup {arg}]
        [] step[1] = "storage" -> Storage(h, arg)
        [] step[1] = "own"     -> EnsureOwn(h, arg)
        [] step[1] = "initialize"    -> Initialize(h, arg)
        [] step[1] = "publish"       -> Publish(h, arg.config, arg.server)
        [] step[1] = "activate"      -> Activate(h, arg)
        [] step[1] = "pin if issued" -> IF h.issued THEN Pin(h, renewed) ELSE h
        [] step[1] \in {"obtain", "try obtain"} -> Obtain(h, renewed)
        [] step[1] = "state"     -> Write(h, StateJson)
        [] step[1] = "ownership" -> Write(h, Ownership)
        [] step[1] = "binary"    -> Write(h, Binary)
        [] step[1] = "back up"   -> WriteRootOnly(h, Backups)
        [] step[1] = "email"     -> WriteRootOnly(h, EmailToml)
        [] step[1] = "restart"   -> Restart(h, Services)
        [] step[1] = "restore files"      -> RestoreFiles(h, cmd.saved)
        [] step[1] = "restore attributes" -> RestoreAttributes(h, cmd.saved)
        [] step[1] = "restore release"    -> RestoreRelease(h, cmd.saved)
        [] step[1] = "roll back"          -> RollBackInstall(h)

Can(h, step) ==
  CASE step[1] = "storage" -> CanStore(h, step[2])
    [] step[1] \in {"initialize", "publish", "restore files"} ->
         \A path \in {Artifact, ConfigToml, Active} : CanWrite(h, path)
    [] step[1] = "pin if issued" -> h.issued => h.grouped
    [] step[1] = "restart" -> h.accounts = Services
    [] step[1] \in {"obtain", "try obtain"} -> h.grouped
    [] OTHER -> TRUE

-----------------------------------------------------------------------------
(* The commands.                                                           *)

Restarts(steps) == Len(SelectSeq(steps, LAMBDA step : step[1] = "restart"))
Publishes(steps) == \E i \in 1..Len(steps) : steps[i][1] = "publish"

Begin(kind, c) ==
  /\ cmd = Nothing /\ May(machine, kind, c)
  /\ LET opened == Opened(machine, Lock)
         plan   == Plan(opened, kind, c)
     IN  /\ machine' = opened
         /\ todo' = plan
         /\ cmd' = [kind |-> kind, restarts |-> Restarts(plan), saved |-> opened,
                    recovering |-> FALSE]
  /\ commands' = commands + 1
  /\ UNCHANGED <<hook, unfit, regranted, failures, renewals>>

(* The lock of the certificate directory is the hook's while it has staged.  *)
NeedsCertificates(step) == step[1] \in {"own", "pin if issued", "obtain", "try obtain",
                                        "restore release"}
Repairs == {"install", "edit", "switch", "update"}

Success == Len(todo) = 1 /\ ~cmd.recovering /\ cmd.kind \in Repairs
Finish == cmd' = Nothing /\ todo' = <<>>
Advance ==
  IF Len(todo) > 1 THEN todo' = Tail(todo) /\ UNCHANGED <<cmd, unfit>>
  ELSE Finish /\ unfit' = (unfit /\ ~Success)

Step(renewed) ==
  /\ cmd # Nothing
  /\ NeedsCertificates(Head(todo)) => hook # "staged"
  /\ Can(machine, Head(todo))
  /\ machine' = Do(machine, Head(todo), renewed)
  /\ Advance
  /\ regranted' = (\/ regranted /\ ~Success
                   \/ /\ hook = "staged"
                      /\ \/ Head(todo) = <<"storage", "kernel pairs">>
                         \/ Head(todo)[1] = "restore attributes")
  /\ UNCHANGED <<hook, commands, failures, renewals>>

(* What a command does about a step that failed. *)
Restore ==
  CASE cmd.kind \in {"install", "no start"} -> <<<<"roll back", Nothing>>>>
    [] cmd.kind = "switch" ->
         <<<<"restore attributes", Nothing>>>>
           \o If(/\ Head(todo)[1] = "restart" \/ Restarts(todo) < cmd.restarts
                 /\ \E s \in Services : machine.runs[s] # Nothing, <<<<"restart", Nothing>>>>)
    [] cmd.kind = "update" -> <<<<"restore release", Nothing>>, <<"restart", Nothing>>>>
    [] cmd.kind = "edit" /\ ~Publishes(todo) ->
         <<<<"restore files", Nothing>>>> \o Granted(cmd.saved.config.direct) \o <<<<"restart", Nothing>>>>
    [] cmd.kind = "rule set" /\ ~Publishes(todo) -> <<<<"restore files", Nothing>>>>
    [] OTHER -> <<>>

(* Fails: a certificate that Certbot does not issue is only reported by an  *)
(* install whose server does not need it. *)
Fail ==
  /\ cmd # Nothing
  /\ IF Can(machine, Head(todo)) THEN failures < MaxFailures /\ failures' = failures + 1
     ELSE UNCHANGED failures
  /\ IF cmd.recovering THEN Finish /\ unfit' = TRUE
     ELSE IF Head(todo)[1] = "try obtain" THEN Advance
     ELSE IF Restore = <<>> THEN Finish /\ UNCHANGED unfit
     ELSE /\ todo' = Restore
          /\ cmd' = [cmd EXCEPT !.recovering = TRUE]
          /\ UNCHANGED unfit
  /\ UNCHANGED <<machine, hook, regranted, commands, renewals>>

Die ==
  /\ cmd # Nothing /\ failures < MaxFailures /\ failures' = failures + 1
  /\ Finish /\ unfit' = TRUE
  /\ UNCHANGED <<machine, hook, regranted, commands, renewals>>

-----------------------------------------------------------------------------
(* The Certbot hook.                                                       *)

HookStage ==
  /\ hook = "idle" /\ renewals < MaxRenewals
  /\ IsInstalled(machine) /\ machine.config.direct /\ machine.issued /\ machine.grouped
  /\ LET ready == Opened(Prepare(machine, Host), CertsLock)
     IN  machine' = [ready EXCEPT !.tree =
                       Over(At(Temp, Staged(machine, 750)),
                            Over(At(TempPair, Staged(machine, 640)), @))]
  /\ hook' = "staged" /\ renewals' = renewals + 1
  /\ UNCHANGED <<cmd, todo, unfit, regranted, commands, failures>>

HookExchange ==
  /\ hook = "staged"
  /\ LET rest == [machine EXCEPT !.tree = [path \in DOMAIN @ \ {Temp, TempPair} |-> @[path]]]
     IN  machine' = IF Exists(machine, PairDir(Host)) /\ Exists(machine, Temp)
                 THEN Exchange(rest, Host, "pinned", machine.tree[Temp], machine.tree[TempPair], TRUE)
                 ELSE rest
  /\ hook' = "published"
  /\ UNCHANGED <<cmd, todo, unfit, regranted, commands, failures, renewals>>

(* systemctl try-restart: only a service that runs. *)
HookRestart ==
  /\ hook = "published" /\ hook' = "idle"
  /\ machine' = IF machine.runs["sing-box"] = Nothing THEN machine ELSE Restart(machine, {"sing-box"})
  /\ UNCHANGED <<cmd, todo, unfit, regranted, commands, failures, renewals>>

InitAccess ==
  /\ \E issued \in BOOLEAN : machine = [Blank EXCEPT !.issued = issued]
  /\ cmd = Nothing /\ todo = <<>> /\ hook = "idle" /\ unfit = TRUE /\ regranted = FALSE
  /\ commands = 0 /\ failures = 0 /\ renewals = 0

NextAccess ==
  \/ /\ commands < Len(Courses)
     /\ \E kind \in Courses[commands + 1], c \in Configs : Begin(kind, c)
  \/ \E renewed \in BOOLEAN : Step(renewed)
  \/ Fail \/ Die
  \/ HookStage \/ HookExchange \/ HookRestart

SpecAccess == InitAccess /\ [][NextAccess]_accessVars

-----------------------------------------------------------------------------
(* Properties.                                                             *)

Attributes == [user : Services \cup {"root"},
               group : Services \cup {"root", "sbctl-cert"},
               mode : {600, 640, 700, 750, 755, 1771}]
AccessTypeOK ==
  /\ \A path \in DOMAIN machine.tree : machine.tree[path] \in Attributes
  /\ machine.accounts \subseteq Services /\ machine.members \subseteq machine.accounts
  /\ cmd = Nothing <=> todo = <<>>
  /\ machine.config \in Configs \cup {Nothing}

(* sing-box reads what it is started with; the daemon reads its            *)
(* configuration and artifacts, takes the operation lock, replaces the     *)
(* accounting state, and in Direct mode reads the pinned pair and the      *)
(* challenges. *)
Reaches(s, groups, direct) ==
  LET t == machine.tree
  IN  IF s = "sing-box"
      THEN /\ CanOpen(t, s, groups, Active)
           /\ machine.named \in DOMAIN t => CanOpen(t, s, groups, machine.named)
      ELSE /\ \A path \in {ConfigToml, Artifact, Lock} : CanOpen(t, s, groups, path)
           /\ CanReplace(t, s, groups, StateJson)
           /\ direct => \A path \in {Pair(Host, "pinned"), Webroot} \cap DOMAIN t :
                          CanOpen(t, s, groups, path)

HalfMade == machine.grouped /\ machine.members # Services
StartsServices ==
  /\ cmd # Nothing /\ Head(todo)[1] = "restart"
  /\ cmd.recovering => ~unfit /\ ~regranted

(* Whenever a command starts the services, and whenever none is at work,   *)
(* both services reach every file they live on: with the groups they were  *)
(* started with and with those they would get.  Exempt are:                *)
(*   - HalfMade: the group that owns the certificates exists and not both  *)
(*     services are members of it, as between the two steps of making it   *)
(*     or when one of them failed;                                         *)
(*   - unfit: no command has granted everything and started the services   *)
(*     since the beginning, a death or a failed recovery.  What a command  *)
(*     starts that is not recovering is checked even then;                 *)
(*   - regranted: a renewal was staged while a command that then failed    *)
(*     gave the pairs to sing-box or put their attributes back, so that    *)
(*     the pair published next has an owner of before; until a command     *)
(*     succeeds.                                                           *)
(* Outside these it holds however earlier commands failed, and again after *)
(* a dead one once the next has repaired the host (lifecycle.rs:1590-1752).*)
ServicesReachTheirFiles == ~HalfMade =>
  /\ StartsServices => \A s \in Services : Reaches(s, Groups(machine, s), machine.config.direct)
  /\ cmd = Nothing /\ ~unfit /\ ~regranted =>
       \A s \in {r \in Services : machine.runs[r] # Nothing} :
         /\ Reaches(s, Groups(machine, s), machine.config.direct)
         /\ Reaches(s, machine.runs[s].groups, machine.runs[s].direct)

(* At every moment, also between two steps of a command and after one that *)
(* died: the locks and markers of publication and the e-mail settings are  *)
(* root's alone, sing-box opens nothing of the daemon's, the daemon not    *)
(* the active configuration, a third account no file but the binary, and   *)
(* nobody can put something else in the place of what is root's            *)
(* (config.rs:2093-2129, lifecycle.rs:1723-1733). *)
OnlyOwnersOpen ==
  LET t == machine.tree
      Closed(who) == CASE who = "sbctl" -> {Active} \cup RootOnly
                       [] who = "sing-box" -> {ConfigToml, Artifact, StateJson, Lock} \cup RootOnly
                       [] OTHER -> {Active, ConfigToml, Artifact, StateJson, Lock, TempPair}
                                     \cup RootOnly \cup Pairs
      In(who) == {who} \cup (IF who \in Services THEN {"sbctl-cert"} ELSE {})
  IN  \A who \in Services \cup {"nobody"} :
        /\ \A path \in Closed(who) : ~CanOpen(t, who, In(who), path)
        /\ \A path \in ({EmailToml, Certs, CertsLock, Binary} \cup Pairs) \cap DOMAIN t :
             ~CanReplace(t, who, In(who), path)
=============================================================================
