# Formal model of sbctl

sbctl installs and manages a sing-box deployment on one VPS: it keeps the
deployment's configuration, generates the server and client files from it, runs
the private subscription service, accounts traffic per billing period, mails
reports, and keeps certificates and binaries up to date. This directory holds
TLA+ models of the parts of it where order, failure and concurrency matter, the
TLC runs that check them, and proofs of the properties that matter most.

Paths are relative to the repository root; `artifacts.rs` is
`src/subscription/artifacts.rs`, `serve.rs` is `src/subscription/serve.rs`, and
`commands/X.rs` is `src/cli/commands/X.rs`.

## The system

Everything runs on one host. The actors are administrator commands (any number
of them, in any terminals, some with a prompt open for hours), three timers
(accounting, optional e-mail, optional credential rotation), Certbot with its
deploy hook, the daemon `sbctl serve`, and sing-box. They meet in files under
`/etc/sbctl`, `/etc/sing-box` and `/var/lib/sbctl`, in systemd units, and in
one exclusive file lock, the *operation lock* (`config.rs:1820`).

| component | state | operations | who else touches it | what must hold | module |
|---|---|---|---|---|---|
| deployment transaction (`artifacts.rs`, `commands/config.rs`, `commands/system.rs`) | `config.toml`, one file per artifact, the active sing-box file, running services | commit an edit, switch template, re-apply overrides, regenerate, rotate, restart; rollback of each | sing-box and the daemon read the files when they (re)start, prompts hold an old copy | all or nothing under failures; refused configurations never active; stale prompts refused; revoked secrets stay revoked | `DeploymentTransaction`, `ReversibleDeployment` |
| configuration and its dialogues (`config.rs`, `wizard.rs`, `cli/menu.rs`, `port_hopping.rs`) | the fields of `config.toml`, the hooks of the sing-box unit, the nftables table of the hopping range | wizard, topic edits, mode switch, hopping; rollback of each | systemd runs the loaded hooks at any start or stop | an edit changes what was answered and nothing else; packets reach their node | `DeploymentOptions`, `ConfigurationEdits` |
| traffic accounting (`traffic.rs`, `commands/status.rs`) | `state.json`: cycle key, interface, boot id, baselines, accumulated counters, corrections | timer run, read, correct directions, correct total, reset on a new schedule | wizard commits, reboots, the kernel counters | no byte counted twice; corrections are what later traffic adds to; the state follows the configuration | `BillingCalendar`, `Accounting` |
| e-mail reports (`email.rs`, `commands/email.rs`) | delivery state | hourly check, check by hand | accounting, configuration changes | one letter a day and per reset, not none and not one an hour | `Reports` |
| certificate publication (`certificate.rs`, `managed_directory.rs`, `commands/certificate.rs`) | the private directory (pair and refresh marker), Certbot's live pair | obtain, renew, deploy hook | the daemon, sing-box, other certificate commands; it takes no operation lock | sing-box never stays on an older pair unnoticed | `CertificatePublication` |
| HTTPS certificate reload (`serve.rs:690-814`) | active pair and stamp, back-off | a check every second | certificate commands exchange the directory at any moment | no mixed or mislabelled pair; a good pair is not lost to a bad one; the published pair is served in the end | `CertificateDelivery` |
| subscription listener and request budget (`serve.rs:100-305`) | permits, per-peer counts, token buckets | accept, request, close | many clients | limits hold and are given back; a client told to wait is served afterwards | `RequestBudget`, `SubscriptionListener` |
| client files (`subscription/render/*`, `template.rs`, `profile.rs`, `rule_list.rs`) | none | render a configuration and its sources to the files of every client and core version | called by the transaction | every file loads in its core, routes and resolves as promised | `ClientTemplates`, `ClientProfiles` |
| routing and artifact selection (`serve.rs:858-1220`) | the daemon's configuration | parse a route, choose an artifact, answer | reads what the transaction publishes | every address shown leads to its file, no other is answered | `SubscriptionService` |
| override sources, rule lists, rule sets (`commands/config.rs:138-700`, `commands/rule.rs`, `commands/ruleset.rs`) | files under `etc/sbctl/overrides` and `rules` | edit, clear, add, remove, import, register | open editors, regeneration | no edit lost; a refused source is put back; what is published comes from what is on disk | `ClientFiles` |
| named credentials (`commands/system.rs:240-492`) | a list of name, secret, expiry | add, revoke, rotate with a grace window | the daemon, which reads it at start | an expiry once promised is never extended | `CredentialPromises`, `Credentials` |
| update, sing-box replacement (`update.rs`) | two binaries, rollback points | install a candidate, update both, restore | services, certificate commands | a failed update leaves the old pair running | `UpdateTransaction` |
| install, replacement, uninstall, mode switch (`lifecycle.rs`, `commands/install.rs`, `commands/mode.rs`, `preflight.rs`) | units, ownership marker, archives, the lock file itself | install, replace, roll back, switch, uninstall, purge | other commands waiting for the lock, the accounting timer | a failure leaves a coherent host as found; a success is whole | `HostLifecycle` |
| owners and modes (`managed_fs.rs`, `managed_directory.rs`, `lifecycle.rs:1680-1780`) | owner, group and mode of every managed path | each root command, the renewal hook | the two service accounts open them at any moment | each service reaches what it lives on, and nobody else's | `ServiceAccess` |
| release manifests, JSON merge, observation, arguments, QR, terminal output | none, or external tools | | | | not modelled |

### What is hard here

* Publication replaces a dozen files one rename at a time. Each rename is
  atomic, the sequence is not; the restore after a failure can fail as well, and
  a process can die between any two steps.
* Prompts and editors stay open without the lock.
* Timers and the daemon read without the lock, and use what they read later.
* Certificate commands have a lock of their own, so they interleave with
  everything, and the hook publishes while a root command changes owners.
* A daemon must cope with files that change while it reads them.
* Counters wrap, saturate, restart at zero; corrections are offsets on them.
* A wall clock skips and repeats hours, and months begin in them.
* The lock is a file, and `uninstall --purge` deletes it.
* Some two dozen files of two cores and six versions must agree on what they
  mean, and each refuses what the next one needs.

`PROJECT.json` lists each of these hazards at its line with the property that
watches it.

## The plan

Order: the transaction every command goes through first, then what it does not
protect (accounting that reads before locking, certificates with a lock of their
own), then the services, then the commands built on top, then what the files
say. Done:

1. `DeploymentTransaction`, implementing `ReversibleDeployment`.
2. `BillingCalendar` and `Accounting`; `Reports`, which composes the mailers
   with it.
3. `CertificatePublication`, and `CertificateDelivery`, which composes it with
   the daemon.
4. `RequestBudget`, and `SubscriptionListener`, which composes it with the
   connections.
5. `Credentials`, implementing `CredentialPromises`.
6. `UpdateTransaction`.
7. `HostLifecycle`.
8. `ClientTemplates`, `ClientProfiles`, `SubscriptionService`, and `ClientFiles`,
   the commands that change what those say.
9. `DeploymentOptions` and `ConfigurationEdits`.
10. `ServiceAccess`.
11. Proofs of 1 to 7, of the edits of 8, of 9, and of who may open what in 10
    (below).

Next: the descriptions of the nodes themselves (`canonical.rs`, `uri.rs`, the
sing-box and Mihomo node of each protocol against the server's inbound), the
download and manifest checks of `release.rs`; a proof that a repaired host
serves (`ServicesReachTheirFiles`), and of the paths of `ClientFiles`.

## The modules

Everywhere: one action is what the code does between two points where another
process can see the result or the process can die. A replaced file is one step
(staged, then renamed). An exclusive lock is a variable holding its owner, and
`flock` releases it when the owner dies. *Crash* means the death of a process,
not power loss: what was written stays written. Content is abstracted to what
it is generated from. `Fault` counts the failing steps, deaths and reboots a run
allows.

**`DeploymentTransaction`** (`artifacts.rs`, `commands/config.rs`,
`commands/system.rs`). The state is `config` (`config.toml`), `artifact` (a
content or `Absent` per file name), `active` (`/etc/sing-box/config.json`),
`lock`, what the two services loaded (`sbctl`, `singbox`), and per command a
phase, a prompt with the configuration it was opened on, and a job with the
rollback snapshot. `StartApply` is the planning half of
`apply_transaction_locked` (drift, names, stale files, `sing-box check`);
`WriteArtifact`, `WriteActive`, `WriteConfig` and `Prune` are its writes in its
order; `UndoArtifact`, `UndoActive` its `restore_replaced`; `RestoreArtifact`,
`RestoreActive`, `RestoreConfig`, `Reactivate` the
`restore_config_transaction_locked` of a failed activation. A content is a node
model and a template; `NamesOf` says which files a node model has; `Rejected` is
what `sing-box check` refuses. `suspect` is a history variable: a crash or a
failed recovery since the last complete publication.

**`ReversibleDeployment`**: the abstract specification. Seen between commands,
each command replaces the whole deployment, rotates the credential or does
nothing. `Atomic` in `DeploymentTransaction` maps its `image` to the files when
the lock is free and to the snapshot of the command inside otherwise.

**`BillingCalendar`** (`traffic.rs`): an instant is a number of half hours, a zone
a set of moves of its clock, a schedule a policy with its anchor.
`AccountingPeriod` is what the code computes, hours that are skipped or repeated
included.

**`Accounting`** (`traffic.rs`, `commands/status.rs`). `state` is `state.json`,
`wire` what an interface carried in all, `zero` what it had carried when the
kernel counter was last zero. The timer and the correction load the
configuration in one step and lock in another, as the code does; a
configuration commit re-baselines after its activation. `Top` is `u64::MAX`:
sums saturate at it. A state names its period by the instant the period starts
at, so two schedules may share one. `audit` is a history variable: what the
figures should mean.

**`Reports`** (`email.rs`) EXTENDS it with the mailers. `Check` takes the lock
and decides what is due; `Deliver` and `Record` are two steps, and between them
the mailer may die; `DeliverFails` may fail a letter the server had accepted.
`inbox` is a bag: how often each occasion arrived.

**`CertificatePublication`** (`certificate.rs`, `managed_directory.rs`,
`commands/certificate.rs`). `dir` is the published directory (inode, pair,
modification time, refresh marker). `ReadLive` is outside the publication lock;
`Publish` (staging and exchange) and `Clear` (compare and unlink the marker)
are one step each because the lock covers each. `Dies` may come between any
two. `ReuseInodes` says whether a freed inode number can return.

**`CertificateDelivery`** (`serve.rs`) EXTENDS it with the daemon: stamp, read,
stamp again, decide; back-off; expiry; restart.

**`RequestBudget`** (`IpBudget` of `serve.rs`): the token buckets, with the
remainder kept in the bucket's time. `since`, `admitted`, `cleared` and
`promised` are history variables. **`SubscriptionListener`** EXTENDS it with the
global semaphore and the per-peer counts, which are separate steps on both the
way in and the way out.

**`Credentials`** (`commands/system.rs`, `config.rs`): the named links of the
file and of the running daemon, the transaction with its restart and recovery,
and `promised`, the expiry last *reported* for each secret.
**`CredentialPromises`** is its abstract specification: a table of links with
one owner and one expiry each.

**`UpdateTransaction`** (`update.rs`): `disk` holds both binaries and the
configuration (with the artifacts, units and state that are backed up with it,
as one), `pinned` the published pair, `running` what each service was started
on, `points` the rollback points. `RestoreEntry` puts entries back one by one in
the order of `MANAGED_PATHS`. Configuration commands and certificate commands
are one step each: their insides are the other modules' subject. A write that
fails changed nothing; a mode that cannot be set afterwards is an action of its
own (`ChmodFails`), and makes the host `suspect`. A service
comes up unless its binary is `Unhealthy`.

**`HostLifecycle`** (`lifecycle.rs`, `commands/install.rs`, `commands/mode.rs`).
`host` says which deployment each managed file belongs to (`config`, `artifacts`,
`active`, `units`, `socket`, `hook`, `kernel`, `state`, `marker`) and which units
are active and enabled. `lockfile` is the inode of the lock file, `opened` the
inode each command has open, `held` who has locked its inode. `pc` walks through
the phases of each command; a failing step goes to the recovery the code has
there, and a recovery step that fails is remembered in `unrestored`.
`disturbed` are the commands under which another one changed the host.
`RecoverFiles` is `Snapshot::restore` of a mode switch in its order: what listens
is stopped and the files and links put back (`Reset`), `restart_services` runs for
the configuration put back and rewrites unit, socket and hook for its mode
(`Revived`), and each recorded unit is started or stopped (`Started`). What it
reports as an error without having failed at anything is `Alarmed`.

**`ClientTemplates`** (`template.rs`): the groups, rule sets, routing verdicts
and resolvers of the templates. A destination is a class of traffic with its
traits; a matcher is tried against the traits. **`ClientProfiles`**
(`subscription/render/*`, `profile.rs`, `rule_list.rs`): the server file, the
sing-box profile of every supported minor, the two Mihomo files and the node
lists of one configuration with its sources, each as the groups, rule sets, rules
and resolvers it declares and the features it needs of the core that loads it.
**`SubscriptionService`** (`serve.rs`, `profile.rs`, `index_page.rs`,
`commands/serve.rs`): the paths, what the daemon answers on the listeners of each
mode *by the configuration it was started with* and the files that are on disk,
and the addresses shown by `sbctl sub`, `sbctl qr` and the overview page.
**`ClientFiles`** EXTENDS them with the commands: `disk` holds configuration,
sources and publication, `daemon` what the daemon was started with. A command
loads (an editor opens), locks and compares, writes its source, publishes,
restarts the daemon and answers; each failure takes the restore the code has
there. `relic` is a history variable: the list a failed list command took back
while the published files keep it, until the next publication (below).
Between a publication and the restart of the daemon a link may be
answered 404 or 503; `OfferedIsServed` is about a host where no command is at
work. `Promise` and `Decision` are the reference tables the files are compared
with: what the operator's sources and the template promise for each class of
traffic, against what the first matching rule of the file says.

**`DeploymentOptions`** (`wizard.rs`, `config.rs`): the questions a dialogue asks
in which mode, their defaults, the configuration rebuilt from the answers, and
what validation refuses. `Readable` is what the types of `DeploymentConfig` let
through, `Understood` what the parsers of the answers do. **`ConfigurationEdits`** (`commands/config.rs`,
`port_hopping.rs`) puts them on a host: confirm, publish, rewrite the unit's
hooks, `daemon-reload`, restart; failure takes the same way back. systemd runs
the hooks of the unit it has *loaded*.

**`ServiceAccess`** (`managed_fs.rs`, `managed_directory.rs`, `certificate.rs`,
`lifecycle.rs`, the commands): owner, group and mode of each path, the policy
each write applies, and the commands as the sequences of their steps. The
renewal hook stages and exchanges under the lock of the certificate directory.
`unfit` and `regranted` are history variables for the two windows described
below.

## The runs

`MC*` modules only give values to constants. Nothing in a run depends on how
many bytes a name or a payload has. Runs that ask about different situations of
one module share a state space through a `Sessions` (or `Budgets`) constant: the
initial state picks one.

| run | question | bounds, and why they are enough |
|---|---|---|
| `deployment` | Does a failed command restore everything, is a quiet host whole, does a complete publication repair a crash, do rotated secrets stay away, is the deployment atomic between commands? | Two commands, one of which may have prompts open (`Prompters`), three node models (one refused, two with different file sets, so that files go stale), two templates, the commands of `Asked`, one rotation. Either two failing steps (one to fail the command, one to fail its rollback) or one death of a command or a service at any point (`Budgets`). |
| `accounting_counts` | Do the figures mean the traffic carried? | Counters saturate at 4 and the host carries 3 units, so a correction reaches the limit; one reboot, counter rollback or death, one period boundary, two commands. |
| `accounting_reports` | Does the state end up describing the configuration, is everything due mailed in the end, and nothing twice without cause? | Two interfaces, two schedules that share a month which begins in an hour the clock skips, two configuration commands, three instants (a day, the last hours of a period, the next), one failed delivery, death or reboot. Traffic is `accounting_counts`' subject. |
| `certificates` | Is an unrefreshed data plane always marked, and refreshed in the end? Does the daemon serve the published pair, and never lose a usable one? | Either two commands, two renewals and two deaths or failed restarts without a daemon, or the daemon beside one command with two renewals, one fault and one failed read: the publication lock leaves the daemon nothing more to see of two commands than of two publications of one. The safety properties are proved for any number of both. |
| `subscription_listener` | Do limits hold and come back? | Three connections of two addresses against two permits, one per address, and a table that a second address in debt overflows (`MaxTracked` is 0), so that every limit is met; burst 2, refill 2 ticks, 6 ticks. |
| `credentials` | Is a link served exactly as long as was reported? | Two names (one the default's), grace windows of 0, 1 and 2 seconds, four secrets, two failures, one crash. |
| `update_transaction` | Does a failed update leave the previous consistent host? | Three updates of one or both binaries among three versions, one that dies at start and one that refuses a configuration; two failing steps, one crash, one renewal; one kept point instead of three, so that pruning happens at the second. |
| `host_lifecycle` | Does a failed command leave the host as found and a successful one a whole deployment, and does every command end? | Two or three of fresh install, replacement, mode switch, timer, uninstall and purge, on a bare, a Direct and a proxied host, with services an administrator had stopped; two failures or deaths, so that a recovery can fail too, or a switch fails on a host that one before it left between two modes. |
| `host_recovery_waits` | The disagreement below. | Two timer tasks and a switch on a Direct host. |
| `client_files` | Is no edit lost and everything served generated from what is on disk? Does every file load, lead where it should, route and resolve as promised? | *Wide* sessions: one command, no fault, 40 configurations and kernels (templates, rule sets, fake addresses, protocol sets, hopping, registered sets; sing-box 1.10 to 1.14) with 19 kinds of edit. *Narrow*: one configuration, two commands that race, two faults, daemon restarts. |
| `configuration` | Does an edit change only what was answered, do packets reach their node, do schedules follow the clock? | Sessions with up to two answers at once from four configurations, series of two edits, and three edits with two failures, deaths or reboots; two zones, one whose clock skips the first hour of a month and repeats one of the next; ports and ranges that touch one another. |
| `service_access` | Can the services open what they live on, and nobody else's? | An installation (or one with `--no-start`), then any command, then a switch or an update that must repair the host; one failing step or death, one renewal at any point. |

`CHECK_DEADLOCK FALSE`: in `subscription_listener` and `update_transaction`
time and the budget of updates run out; in `client_files`, `configuration` and
`service_access` the host rests when the commands of the session are done. No
other run has a deadlock.

### Fairness

* Runs without a temporal property of progress have none; an action property or
  a refinement of safety needs no fairness. Nowhere is an administrator made to
  start a command or to answer a prompt, except where a bullet says so.
* `Reports!FairSpecAll`: the steps of a command and of a letter, both timers fire
  again (`OnCalendar=minutely`, hourly), and *strong* fairness of the hourly
  check: the accounting timer takes the lock again and again between, and `flock`
  wakes those who wait. `Converges` and `NothingOwed` say that then, once
  configuration changes, faults and time stop (they are bounded), the state is
  repaired and nothing stays due.
* `CertificateDelivery!FairSpecAll`: the steps of a command, that somebody runs a
  certificate command again (Certbot's hook at the next renewal, the
  administrator told by the failed command), the daemon's one-second check and
  the end of its 30 s back-off. `RetryCompletes` is therefore about what *later*
  commands do; without one, the marker just stays. Renewals,
  expiry and restarts are not fair.
* `HostLifecycle!FairSpec`: weak fairness of each step of a command that can
  proceed, `flock` included. `CommandsEnd` holds without the timer beside a mode
  switch; with it the recovery can wait for itself (below).

### Disagreements found

* `host_recovery_waits` (bug, in `PROJECT.json` with both lines quoted): a mode
  switch that fails while the accounting or rotation task waits for the operation
  lock records that task as active, and its restore starts it with a blocking
  `systemctl start` while it holds the lock the task waits for
  (`commands/mode.rs:222`, `335`), although `commands/mode.rs:135` says never to.
  `host_lifecycle` leaves out the sessions in which it happens.

Noted while modelling, with no run of their own:

*Accounting.*
* A timer that loaded a tentative configuration, and got the lock after its
  rollback, throws away the accounting of a configuration that never changed
  (`commands/status.rs:445`).
* Correcting directions after a total-only correction keeps the old negative
  adjustment, so later traffic does not appear in the total (`traffic.rs:519`),
  against ADR-0016.
* A policy changed to one whose current period starts at the same instant keeps
  the traffic counted so far (`traffic.rs:376`), though a comment says the wizard
  establishes a new state (`commands/config.rs:1164`).
* A zone that sets its clock back over the start of a month (St. John's before
  2011) would be re-baselined twice, and would mail a day twice; zones that today
  set it back at midnight show 23:00 then, so no day comes again. A clock that
  skips more than three hours fails the accounting; a gap across the end of a
  month would skip a period. No zone has either.

*Certificates.*
* A command that read Certbot's pair before a renewal puts it back over the
  renewed pair, and the other command reports success (`certificate.rs:447`). The
  next certificate command repairs it.
* With `ReuseInodes` TRUE, `UnrefreshedIsMarked` fails: a marker can be taken for
  that of an earlier directory with the same inode number
  (`managed_directory.rs:313-330`).
* The comment above `load_tls_config` (`serve.rs:1088`) speaks of a reload before
  every handshake; the code checks every second, with a back-off.
* The copy pinned for an external proxy with a domain certificate is not pinned
  again after a renewal; a fresh installation of that kind names the files in
  `/etc/letsencrypt/live`, which no module follows.

*Commands on the host.*
* What a failed install undoes can be another command's deployment
  (`RecoverySparesOthers`, `commands/install.rs:358` against `385`), and two
  commands can both be inside the lock after a purge deleted its file
  (`LockExcludes`).
* A replacement archives the conflicts it listed before it takes any lock
  (`commands/install.rs:154`). When fresh installations race it on both sides,
  it can move away a part of one of them, and the other then succeeds beside what was
  left of its hook or socket: `SuccessIsWhole` is false of such a session of three.
* A mode switch that fails on a host which an earlier one left between two modes
  does not leave it as it found it: its recovery runs `restart_services`
  (`commands/mode.rs:326`), which rewrites unit, socket and hook for the
  configuration put back and enables or disables the socket. The host is repaired
  rather than put back, but not wholly: as units are started and stopped one by one
  afterwards (`commands/mode.rs:332`), stopping a socket recorded inactive takes
  along the daemon that requires it, and starting one recorded active is refused
  beside a daemon that runs without it. `Mended` is exactly what may differ.
* The recovery of a switch stops `sbctl-http.socket` whether or not there is one
  (`commands/mode.rs:252`): on a host that has no such unit it reports an error and
  the command says that its recovery failed, though everything was put back. The same goes
  for a host whose units are gone. `FailureLeavesHost` judges these reports too.
* A pair published between the backup and the restore of an update is overwritten
  by the older one of the backup (`update.rs:975`).
* A new binary whose mode cannot be set after its rename stays when it is the
  first (`update.rs:751`, `707`: the error is returned without a restore); when it
  is the second, the restore restarts no service, so a sing-box that Certbot's
  hook restarted in between goes on running the new one. Both need a failing
  `chmod`, and are excluded by `suspect`.
* Three kept rollback points can all be of a broken deployment when an update is
  repeated after a crash.
* A crash between the write of the sing-box unit and `daemon-reload` leaves its
  new hooks unloaded.

*Client files.*
* A list command whose publication succeeded and whose storage step then fails
  (`config.rs:690`) restores only the list (`commands/rule.rs:131`), although
  `commands/ruleset.rs:273` promises to leave previous lists and artifacts: the
  artifacts stay as generated from the list that was taken back, until the next
  publication. `PublishedFromSources` excepts that one list (`relic`) and nothing
  else: what the files hold of all other sources, and the server file, is from disk.
* On sing-box 1.11 and later the operator's rules come before `sniff` and
  `hijack-dns`: those by domain do not match tun traffic that has a real address.
* A registered rule set named like a tag of *another* template is accepted, and
  refuses the later switch to it (`commands/config.rs:914`).
* A crash after an override was written and before it was accepted leaves it as
  the source; one during `clear` leaves documents in the hidden backup directory.
* The note of the Clash Verge row mentions `clash-1.18.yaml` also where only
  AnyTLS is enabled, and there is none; a name on the operator's proxy list is
  still asked of the domestic resolver when it is a domestic one; an override that
  uses features of a newer core is checked by the host's kernel on the full
  profile only; version numbers like `+1` and `01` are accepted.

*Configuration.*
* A random port for a newly enabled protocol, or for the Clash API, may fall into
  the hopping range, and the edit is refused; the API port is compared with the
  other ports only by the activation; two ports cannot be swapped in one edit.
* With a domain certificate the host cannot be changed under the subscription
  topic alone; Enter drops the e-mail address when the mode is not Direct; Enter
  on a base URL trims its trailing slash. Refusals change nothing.

*Owners and modes.*
* `regranted`: a switch from Direct to a proxy gives the pairs to `sing-box`
  (`lifecycle.rs:1698-1711`) while the hook has a generation staged under its own
  lock; the switch fails and restores the attributes; the hook exchanges in the
  generation with the other group, and the daemon cannot read its pinned pair,
  against `lifecycle.rs:1755`. The mirror image exists for a failed switch to
  Direct. The next preparation of the storage repairs both.
* On a host installed with `--no-start`, regeneration, rule-set and template
  commands fail after they have published (`missing managed identity sbctl`),
  although `config.rs:683` mentions such hosts. A half-made group (`usermod`
  failed) is exempt (`HalfMade`).
* `try-restart` by the hook in the middle of a switch may start sing-box before
  its pair is granted; `chown -R` racing a publication may fail an edit without
  need; the recovery of a switch reports a failure when `groupadd` had failed and
  pairs exist.

## The proofs

`tlapm` checks every theorem below from the modules alone, for all values of
the constants that satisfy the named assumptions. Eight modules hold them.

* **`DeploymentTransaction_proofs`**, from `NamesAssumption` and
  `ConstantsAssumption`. `TypeInv` adds to `TypeOK` the shape of a command's
  local state: who works holds the lock and has a job. On it stand
  `StalePromptRefused` (proved, not run); `RotatedSecretStaysRotated`, whose
  `SecretInv` says that what a command publishes, would restore, or was asked in a
  prompt is never older than the last reported rotation; and
  `FailureRestoresDeployment`, whose `RestoreInv` says, phase by phase, that every
  file that differs from the snapshot is still on the list of files to put back
  (`Undoable` on the way forth, `Undone` on the way back). `PublicationsHeal` and
  `QuietHostIsWhole` need two more: `WholeInv` (what is planned is whole, what is
  laid out so far agrees with the plan, a prompt keeps the configuration it was
  opened on) and `ServeInv` (a service runs what it ran before the command until it
  is restarted, and none runs without an active file). `CommandsAreAtomic` is the
  refinement `AtomicSpec`: the image seen while a command holds the lock is its
  snapshot, so its last step is the abstract one and all others stutter.
* **`Daemon_proofs`**, the listener, from `BudgetAssumption` and
  `ListenerAssumption`. An admission must be paid for by the debt of the bucket or
  by the time since the window began (`PaidFor`); a Retry-After promise is never
  earlier than the next refill (`PromisesCovered`). `ListenerUsesBudget` shows the
  listener to implement the budget, so the bounds hold of it. `PermitsAddUp` counts
  permits and connections as cardinalities of sets. `TableStaysBounded` is proved,
  not run.
* **`Daemon_proofs`**, the certificates, from `PublicationAssumption` and
  `DeliveryAssumption`. `RefreshInv` says that generations are numbered and that a
  command which has refreshed sing-box, and still looks at the published
  generation, left it on that pair (`RefreshedIsLoaded`); `MarkedUntilRefreshed`
  and, with the daemon beside, `MarkedBesideTheDaemon` need `~ReuseInodes`, which
  they state. `ServesWhatItRecords` and `ValidPairRetained` do not: every stamp the
  daemon holds is older than any generation still to come, so a stamp that is
  still that of the directory is of this generation even where inode numbers
  return.
* **`Credentials_proofs`**, from `CredentialConstants` and `NoneAssumption`. `IInv` says that the file, the daemon
  and the snapshot of the command under way each hold distinct, drawn secrets that
  expire no later than promised, and that the report of a successful command would
  not be earlier than what the file then serves. `LinksWorkAsReported` turns "no
  later" into "exactly" for a quiet host (`AInv`), and `KeepsItsPromises` is the
  refinement: while a command is under way (`Underway`) the abstract table is that
  of its snapshot or of its result. That no link of that table gains time or comes
  back (`NeverExtended`) becomes `NothingComesBack` of the implementation.
* **`UpdateTransaction_proofs`**, from `UpdateAssumption` and `NothingAssumption`.
  The invariant is a picture of the command that holds the lock, by phase: what it
  found (`Found`), what it has copied (`HasCopy`), and which service still runs what
  it ran before (`StillRuns`). All five properties of the run follow.
* **`ClientFiles_proofs`**, from `ClientFilesAssumption`. The invariant says how far
  disk and publication are from what the holder of the lock found, by phase.
  `EditsAreSerial` and `PublishedIsCurrent` follow; the latter needs a fact about the
  generated files, that the server's does not depend on the client template. It
  excepts a crash or a failed recovery (`suspect`), and of the list a failed list
  command took back (`relic`) it says that nothing else differs.
* **`Reports_proofs`**, from `AccountingAssumption`, `ReportsAssumption` and, for the
  letters, `ForwardAssumption`. *Figures:* a state file and the audit of what it
  stands for are `Sound` together: what they stand for is bounded by what was
  carried up to the last write and up to now (`Bounded`), is exactly that until the
  next reset (`Exact`), and the adjustment makes up for the rest (`Adjusted`).
  Soundness holds of the file and of what every command has worked out and not yet
  written, and survives traffic, reboots and rollbacks. It needs nothing of the
  calendar. *Letters:* every occasion has one free copy, and each further one is
  paid for by a fault, or for a reminder by a configuration that was written
  (`Bound`). An occasion is either behind (only later ones come up, except itself
  while it is the recorded one), or out in a letter not yet recorded, or already
  paid for (`Settled`); so what a check finds due is paid for, and its letter keeps
  that true until the record (`LetterFits`). That the record moves nothing back
  needs `ForwardAssumption`: neither days nor periods move back in time. TLC
  evaluates it for the zones and schedules of the run.

* **`ConfigurationEdits_proofs`**, from `OptionsAssumption` and
  `SessionsAssumption` (a host starts with a configuration that can be read, is
  valid and comes up; answers are `Understood`). *What an edit changes:* for each
  dialogue, what follows from its questions and from the configuration rebuilt from
  the answers (`OutcomesFollow`). That protocols that stay keep their order is a
  fact about lists, proved by induction: the library's induction theorems take an
  operator, so `NumberInduction` derives induction over a *set* of numbers from its
  well-founded subset ordering, and `ListInduction` carries it to lists. *Packets:*
  the invariant `Inv` follows the files through publication and undo (`OnDisk`), the
  hooks of the unit through reconciliation (`Hooked`), and says of a quiet host that
  services and table are those of the configuration (`Quiet`). What makes it
  inductive is `NoOrphan`: at every step, failed and repeated ones included, a
  redirect table that exists is removed by the hooks of the unit on disk or of the
  one loaded, and still will be after a mode switch has put its snapshot back.
  `EditsKeepTheRest` and `PacketsArrive` follow.
* **`Host_proofs`**, the commands on the host. `FailureUndone` says, for any commands
  beside each other, that one which reports a failure, with no other having changed
  the host meanwhile and no recovery step having failed, leaves every file and unit as
  it found them; only a mode switch on a host it found between two modes may mend
  units, socket and hook instead (`Mended`). For a host it found `Coherent` the proof
  shows that `restart_services` in the recovery changes nothing that is not put back
  as it was. Its invariant `LifeInv` places such a command with respect to what it
  found, phase by phase (`Follows`): either the host is still that, or what it has put
  aside, put back on a bare host, is (`Restorable`), and a fresh installation that has
  not committed its configuration has none to leave behind. It needs that the commands
  find the host *orderly*: a unit that runs while its file is gone and no link enables
  it is stopped by a rollback, and no archive starts it again. Only an uninstallation
  beside a mode switch, or a recovery that itself failed, leaves such a unit. So
  `FailureUndoneInstalling` does without that premise where no command uninstalls
  (`NoRemovals`, a condition on the sessions) and recoveries succeed. It stands on
  `LockHolds`, that two commands are then never both inside the lock (`LockInv`: who
  has the lock file open has the one that is there; a mode switch under way is never
  disturbed), and on `OrderInv`: every step keeps the host orderly, and what a command
  puts aside is such that putting it back is orderly too (`WellKept`). The lock is
  shown to exclude only there: after a purge deleted its file it does not.
  `SuccessWhole` is the other half: where no command uninstalls, and no replacement
  archives only a part of what is there (`WholeLists`, a premise on the behaviour:
  `SuccessIsWhole` is false of some sessions of three installations that race, see
  above), one that reports success has everything it promises on the host and running,
  however many others ran, failed or died before and beside it. `WholeInv` follows the
  holder of the lock: which files and units are its own by now (`Built`). That a fresh
  installation may take an absent configuration for a host at rest is `Grounded`:
  without a configuration no unit runs or is linked and Certbot calls no hook. Every
  step keeps that, of the host, of what a command found and of what it put aside; a
  replacement keeps it when its list is whole. Where nothing is replaced either, no
  list is made, and `SuccessWholeInstalling` needs no such premise.
* **`Host_proofs`**, owners and modes, from `AccessAssumption` (server names have no
  empty label, so none is the name of the lock or of the staging directory).
  `OwnersOnly` is an invariant of single paths: which attributes each may ever have
  (`Fits`), whoever wrote, restored or staged it, in the tree and in what a mode switch
  saved of it (`AccessInv`). What fits already shuts the others out: a private file by
  its own mode, the rest by a directory above them; and no service may write in a
  directory that holds something of root's, or that directory is sticky. Every
  operation on the tree is shown to keep `Fits`, so the order of a command's steps,
  their failures, and the hook's steps among them do not matter.

What is only model-checked:

* Liveness (`Converges`, `NothingOwed`, `RetryCompletes`, `EventuallyServed`,
  `CommandsEnd`): fairness and ENABLED are out of the prover's reach.
* `ClientFiles`' `ProfilesLoad`, `OfferedIsServed`, `RoutesAsPromised` and
  `NamesAskedAsPromised`: first matches in sequences of rules that are filtered and
  flattened out of one another. `SelectSeq` is opaque to the provers; these would
  need the lists rewritten as `Picked` is, and an induction for each.
* `BillingCalendar`'s periods themselves, and with them `SchedulesFollowTheClock`:
  whether a schedule follows the clock is a matter of the zone's moves and the
  lengths of months, which are data and not assumptions (a proof about them is
  replaced by `ForwardAssumption`, which is checked).
* `ServiceAccess`' `ServicesReachTheirFiles`: unlike who may open what, it depends on
  which steps a command still has before it starts the services, for every course and
  every point of failure. Its invariant is a table of remaining steps that TLC walks
  through and a proof would repeat.

No module with a theorem, and none it uses, has a RECURSIVE operator.

## Not modelled

`PROJECT.json` lists every component with its reason. Beyond whole components:

* Power loss, and the order in which a file system makes writes durable.
* `pinned_material_stamp` reads three things; the model reads them in one step.
* Fixed-width arithmetic other than `u64` saturation of traffic (durations in
  `u128` narrowed to `u32` would need centuries).
* The listener in external-proxy mode, where peers are not told apart; an
  address in two spellings, which has one permit count and two budgets.
* The wall clock only advances in `Credentials` and in `Reports`, and rollback
  points are named in order in `UpdateTransaction`; a clock stepped back is a
  hazard no property covers.
* `email send`, which mails a report by hand and records nothing.
* A certificate pair that does not exist yet, in an update; services that die by
  themselves while an update is under way.
* `rules_mode` append and replace, layered override documents and the details of
  the JSON merge; a host without a kernel; the values of the
  `subscription-userinfo` header. The second check of the full profile is modelled
  also when no byte changed, where the code skips it and would find the same.
* Restores of a client-file command fail or succeed as a whole; how a publication
  is taken back file by file is `DeploymentTransaction`'s.
