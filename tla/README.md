# dns-stack: TLA+ models, checks and proofs

dns-stack runs a recursive resolver in mainland China with an exit abroad. Unbound
resolves; mosproxy answers clients over DoH/DoT; nftables marks packets to foreign
name servers and policy routing sends them through a WireGuard tunnel. The Go program
`dns-stack` computes the data this depends on, installs it, watches it, collects
statistics and serves a control panel. This directory models the parts of that program
in which several actors change shared state, checks them with TLC on small instances,
and proves the most important facts with TLAPS for every value of the constants.

`PROJECT.json` lists components, runs, mutants, hazards and theorems, and maps every
definition to the lines of code it stands for.

## 1. Inventory

| Component (source) | State | Operations | Interacts with |
|---|---|---|---|
| Data pipeline (`internal/pipeline/pipeline.go`, `steps.go`, `cmd/dns-stack/routingdata.go`, `routecmd.go`) | `.stamps/`, the products of eight steps, the lock `routing-data.lock` | timer round, administrator's round (`--only`, `--force`, `--dry-run`, `--preview`), rebuild after a route-list edit | kernel sets, Unbound, mosproxy; the route lists |
| Routing plane (`pipeline/routing.go`, `recursive-routing.service`) | nft table, two fwmark rules, table 100, the sets | `routing-setup apply`, `revert` | systemd, wg-quick, pipeline (sets and files) |
| Watchdog (`pipeline/watchdog.go`, `revive.go`, `maintenancecmd.go`) | `routing-watchdog.fail` | diagnose, count, restart the unit, verify, flush caches, restore the access table, revive services | routing plane, both caches, access control, the upgrade lock, alerts |
| Access control (`accesscmd.go`, `pipeline/acl.go`, `access/access.go`, `panel/access.go`) | `acl.txt`, `acl.disabled`, the nft table `dns_acl` | add, remove, set, apply, disable; restore | shell, panel and helper, watchdog, routing service |
| Collector (`collect/consume.go`, `db.go`, `cmd/dns-stack/main.go`) | pipe, channel, batch, SQLite tables, drop counters | read, drop, batch, flush, reconnect, report, prune | mosproxy (writes the pipe before it answers), the panel (reads the tables) |
| Authorities (`cnauth`, `ruleset`, `pipeline/authority.go`, `nft.go`) | four files, the kernel's set, Unbound's list | evidence, retention, guard, load, rename, check, reload, roll back | pipeline, Unbound, routing unit |
| Classification of names (`authority`, `resolve`) | a cache of zones shared by workers | judge a name zone by zone, collapse the list | authorities' servers, over a network that loses queries |
| Addresses (`ipset`, `cidrutil`, `geoip`, `pipeline/fetch.go`, `chnroute`, `geoaudit`, `anycast`, `ecszone`, `cdnrules`, `polluted`) | databases and their tags, open readers, lists, zone table, CDN blocks, evidence | download, look up, walk, set operations, audit, merge, build, search, collect | pipeline (as steps), panel (look-ups), mosproxy |
| Panel accounts (`panel/auth.go`, `oauth.go`, `ops.go`, `helper/auth.go`) | `auth.json`, revoked cookies, the last code's step, failed attempts | log in and out, renew, change password, user name, OAuth, one-time codes | helper, shell (`panel-auth`), GitHub |
| Panel results (`panel/shared.go`, `statsrollup.go`, `stats.go`, `records.go`) | shared results with a generation, remembered hours | ask, compute, forget, report, delete records | the collector's database |
| Helper (`helper/`) | slots, the mutex of configuration edits | run an operation with time limits | the panel over a socket, every command above |
| Upgrade (`pipeline/upgrade.go`, `upgradecmd.go`) | binary, sidecar, backup, lock | fetch, verify, replace, restart, probe, roll back | systemd, watchdog |
| Maintenance, alerts (`pipeline/maintenance.go`, `alert/`) | certificate pairs, Unbound's log, the last alert | renew, copy, restart, repair the log, notify | acme.sh, mosproxy, panel, the webhook |
| Backup, migration (`backup/`, `panel/migration*.go`, `migrationrestore.go`) | archives, the host's files, bundles, copies | create, test, retain, import, roll back, restore | all files, the services |
| Lists, local records (`access/`, `routecmd.go`, `localrecordcmd.go`) | text files, one lock for the route lists, Unbound's records | add, remove, move, reload, undo | pipeline, mosproxy, Unbound |

What is hard here is not the data but the order of effects. The kernel, the files and
the daemons are changed one command at a time; processes started by timers, people, the
panel and systemd interleave, most of them without a lock; every one of them can be
killed or fail between two commands; and the worst outcomes are silent: foreign queries
leaving directly, forged answers that stay cached, a way in that is gone or a revoked one
that is back, the last good backup removed, DNS waiting for its statistics. Second come
the algorithms on addresses, which decide where a query leaves: several of them compute
the same thing in two ways, and their mistakes would sit at the ends of ranges.

## 2. Modules

| Module | Models | Actions correspond to |
|---|---|---|
| `Pipeline` | rounds of steps | one action per decision of `Run` about a step (skip, block, run, succeed, fail, stamp), starting and ending a round, `cmdRoute` with its wait for the lock, a kill, the clock |
| `SerialRounds` | what rounds promise of the products | a round begins, passes a step, reads, publishes, ends; the route list is edited |
| `RoutingPlane` | apply, revert, watchdog | one action per external command of `Apply` and `Revert`, per step of `Check`, and per thing systemd, wg-quick, the kernel and people do to them |
| `AccessControl` | the access list | one action per read, write or nft call of `cmdACL`, the panel's lock-out check, `RestoreACL` |
| `Collector` | the query log | the reader goroutine, one action per turn of `Run`'s loop and per database call in it, `PruneStep` statement by statement, restarts |
| `Authority` | the step `cn-authority` | `ruleset.Build` and `applyAccumulation` as operators on sets of addresses; one action per file written, per decision of `commitAuthoritySet` and `commitECSConf`, the routing unit's read and install, time |
| `AuthRecord` | `auth.json` | one action per panel handler, helper operation and `panel-auth` command; the OAuth exchange in two |
| `PanelSessions` | cookies and one-time codes | login, renewal, logout, the check of a code, restart of the panel, the clock |
| `LoginGuard` | the limit on attempts | `authWait`, the slot for scrypt, the count, the result |
| `HelperOps` | the helper | dispatch, one action per command of an operation, the two halves of `replaceIntField` |
| `SharedCache` | the panel's shared results | `get`, `run`, `forget` and expiry |
| `Upgrade` | upgrade and revival | one action per file replaced, per restart and probe, and for a kill |
| `Alert`, `Maintenance` | the watchdog's messages; certificates and log | one action per command or file written |
| `Backups` | backups, retention, import | packing begins and ends, test, removal, each part of an import, the way back |
| `MigrationBundle` | export, restore | one action per file read, copied or written |
| `UserLists`, `LocalRecords` | lists and records | one action per lock, file, reload and `unbound-control` call |
| `StatsRollup` | reports by the hour | counting, taking the mutex, each hour, deletion |
| `Verdicts` | judging names | each query of each worker, the shared cache, the collapse |
| `GeoStore`, `GeoFiles` | a location database: what it promises, and how | download attempt, verification, the two renames, `Stat`, `Open`, look-up |
| `RangeBasics` | what every list of ranges is worked on with | powers of two and sorting, as recursive functions that the four modules below it share |
| `AddressRanges` | sets of ranges | each turn of `Subtract`'s loop; the rest as operators |
| `GeoTree` | the search tree | each step of `WalkV4`, beside `Get` as an operator |
| `RouteLists` | chnroute, geoaudit, anycast, ecszone | one action per step, each edge of `mergeAgreement`'s sweep |
| `CdnRules` | CDN blocks | build, synchronisation, each turn of `Owner`'s loop |
| `PollutedIPs` | forged addresses | one action per file of a collection |
| `MC*` | instances of these for TLC | |
| `*_proofs` | theorems with their lemmas: of `Pipeline`, `RoutingPlane`, `Collector` and `AccessControl`; of the panel's modules (`Panel_proofs`), of helper, shared results and upgrades (`Operations_proofs`), of databases, forged addresses, `Authority` and the algorithms on addresses (`Addresses_proofs`), of what `MCKeeping` composes (`Keeping_proofs`) | |

Components that share state are one module or meet in one: access control with the
watchdog and the routing service, the plane with systemd and the watchdog, upgrades with
the watchdog's revival, the certificate with acme.sh, lists with their reloads. Parts
that share no variable are checked together in `MCPanel`, `MCOperations`, `MCAddresses`
and `MCKeeping`: the variable `mover`, which no action changes, says which of them moves, so the
state spaces add up instead of multiplying, and nothing is lost since no action of one
reads a variable of another.

### Pipeline

A step is a number; `Needs`, `Every` and `Critical` are those of `steps.go`, cut down in
`MCPipeline` to the three that differ in control (a critical root, a step in the middle,
`cn-authority`, which needs both and reads the route list). What a step computes is
abstract: `behind[i]` is the set of upstream products (and the route list) that were
replaced after product `i` was computed from them, and `missed[p]` the ones replaced
while a process is computing. A step may replace its product or keep it, and may fail
before or after it replaced it. `age` is what the stamps say. The lock is a `flock`: a killed process loses it.

`SerialRounds` is the abstract specification: one round at a time, the steps in the order of
the list, none after a need that failed or was blocked, every product computed from what was
published when its step began, apart from edits of the route list. `Pipeline` implements it:
the abstract round is the one of the process that holds the lock (`Rounds`); dry runs, refused
starts, stamps and the clock are stutters.

### RoutingPlane

`route`, `lookup`, `prohibit`, `chain`, `direct`, `authority` are the pieces of kernel
state that `Apply` installs and `Revert` removes, in the code's order; `step` is the
command the unit's process is at. A packet's `fate` is computed from them. `wpc` is
where the watchdog is; the nft table and the rules are read by two commands, so a
diagnosis can be torn. `poisonU` and `poisonM` say that a forged answer is cached.
Faults: a command of apply fails, the unit or the watchdog is killed, `systemctl` times
out while the job goes on, a flush fails, rules or the ruleset vanish, the tunnel goes.

### AccessControl

A list is the set of client prefixes it covers. Every `dns-stack acl` command is a
process that edits, reads back, asks, installs or clears, and touches the mark, one
action each; restorers read the mark, the list and the kernel in that order. All of them
interleave freely. `outdated[p]` remembers what process `p` relies on (the list its panel
checked, the list it read, the table it wrote, the mark it saw) that another has changed
since; `settled` that the last to write ended on what was current. An edit that was
previewed, declined or cut off halfway has changed the list and not the table.

### Collector

A log line is a domain and a time, or nothing the tables would keep. Intervals are
nondeterministic (a due flush, report or prune may happen in any turn). A database call
may fail once (busy), the handle may break for good, and opening may fail. `blind`
counts the batches lost since the last such fault.

### Authority

A prefix is the set of addresses it covers, so merging and splitting keep their meaning
and a list can change without covering anything else. `compute` is the whole of
`cnauth.Run` up to the writes: `Builds` are the results for all the subsets of servers
the cache may still know, `applyAccumulation` adds what is retained. `targets`, `accum`,
`result`, `conf` are the four files, `kernel` the nft set, `entries` what the routing
unit read of `cn-authority.txt` before it installs it without a lock. Times are ages
that stop at the first value nothing depends on any more, so rounds go on for ever.
`seen` and `missing` are history: when a prefix was last derived, and since when an
address was not. A round that ends without publishing forgets what no file records, so
the properties ask for no more than the files can know. Unbound's own copy of the list
is left out; the code leaves a failed reload to the next restart.

### AuthRecord, PanelSessions, LoginGuard

`rec` is `auth.json`; a request reads it, waits (for a password check, GitHub, the helper)
and sends an update that the helper merges by its rules: a replaced OAuth credential loses
its proof, a changed user its bound id, an update the panel may not make is dropped. A
request knows only what it read, and nothing keeps two of them apart. `lost` names the
aspects of the record (its key, its way in, its proof) that rest on a rewrite another one
overtook: the handler's check and the helper's reading are two moments, and a record read
earlier may be renamed over a newer one. A request inherits what is spoilt when it reads
(`stale`) and heals what it renews. Cookies carry user, key and expiry; the list of revoked
cookies lives in the panel's memory and is written to a file, from which a restarted panel
takes it again, as it does the highest step accepted. The attempt table has a size, and the
wait grows from `FirstWait` to `LongestWait`, in units of which `Second` make a second:
`authWait` converts the rest of a wait to whole seconds, so that its last part-second counts
as none (`Seconds`). An entry is old after the time nothing depends on it.

### HelperOps, SharedCache, Upgrade, Alert, Maintenance

An operation is a sequence of commands (`Plan`), each of which may fail; the panel's
deadline does not stop it. `live` and `conf` are Unbound's option now and at its next start.
A command killed at its limit counts as failed and may have taken effect: `set_option` then
changed the option or not, and a restart may still be carried out by systemd later (`job`).
`SharedCache` numbers the data by version, so a stale result is a smaller number. `Upgrade`
numbers builds, some of which do not start (`Good`); the watchdog shares the lock. The two
labels beside the binary, its checksum and its build-id, are written without looking at the
result: each write and each copy may fail and leave the old text or an empty file (at most
`MaxSilent` times), and the way back restores the build-id only from a copy that exists;
`loose` remembers the labels this has happened to, until they are written again.
`Maintenance` numbers certificate pairs by issue: a pair that does not match makes the
panel fail to start. History variables (`slipped`, `hurt`, `unrecorded`, `torn`,
`halfFixed`) mark the cases in which the code itself gives up or overlaps unprotected.

### Backups, MigrationBundle

The backup directory is a set of files with the time of their last write, by which
retention sorts them (`Newer`); a file that is being written counts. An import stops the
services, writes the parts in the code's order over what is there and, on failure, imports
the backup it made first, in the same way: files and settings replace their like, others
stay, so a part has its old content again but keeps what only the package brought along.
What a backup holds is chosen when it is read (`MayLack`, `MayHold`): copying units,
snapshot and bundle may fail unnoticed, secrets are in none that an import makes, and
`config.env` is in every one. `mergeConfig` keeps addresses of the file it finds, so one cut
short stays `CutShort`. A service that does not start is warned of (`unstarted`). `unsure`
names the parts a failed write tore or that a backup could not bring back. A bundle is a function
from paths to contents with a manifest; on its way any file may be damaged, lost or added.

### UserLists, LocalRecords, StatsRollup, Verdicts

A list is a set of names; an edit reads the file, writes it, and for a move writes the
second file; `told` is what the last finished command said. A record is a name and an
address; `conf` and `live` are what Unbound reads and has. Reading the list, writing the
configuration, its check, putting it back and taking the record off again are steps that
fail one by one; a refused configuration stays, is put back or is removed, and Unbound may
be restarted at any moment, also with a configuration that has not been checked yet. `behind`
names what Unbound was not surely told of, `stale` that the file may differ from the list
until a command that works alone has written it. An event has an hour and an id;
an hour remembered is a set of events with a count. `Verdicts` is given the authorities of
every zone in every combination that differs in control; a lost query yields any subset.
The public suffixes are parsed from files with and without sections, wildcards and
exceptions, and `CnIsEarned` compares them with the suffixes those files are to declare.

### GeoFiles implements GeoStore

`GeoStore` is a register: a database is installed, a look-up begins and ends, and answers
from a database that was in place while it ran; only verified databases are ever installed.
`GeoFiles` is the code: temporary file, verification, two renames, `Stat` before `Open`
under a mutex the download does not know. The refinement maps the file's version, the open
reader and the looked-up versions; `ImplementsStore` is the abstract specification as a
property of the detailed one.

### GeoTree, AddressRanges, RouteLists, CdnRules, PollutedIPs

Addresses are words of two or three bits, so that the first and the last address, adjacent
and nested ranges all occur; `AddressRanges` keeps the word's overflow. Every algorithm is
checked against the set of addresses it should denote; `AddressRanges` over all pairs of
lists of at most `MaxRanges` ranges, the second of the base ending with the address space;
`RouteLists` over databases with differing opinions.

`GeoTree` compares the lookup of one address with the walk over all networks, on every array
of nodes: nodes that lead back to earlier ones (the walk's limit on depth ends them, the
lookup runs out of bits), files cut short in the nodes or in the records, and records that
cannot be decoded, which `Get` reports as an error and `decodeAt` takes for an empty one.
IPv4 lies below a path of IPv6 bits. Where that path ends in a record or in nothing, all
IPv4 addresses have the same answer, and `WalkV4` takes the number for a node and reads the
bytes behind the tree (`geoip.go:365`); what it tells then is arbitrary, and the property
says nothing. The city databases are probed for two different answers before they are
installed (`verify.go:83`), so they have a subtree; those of other kinds are only probed for
records. An IPDB file without IPv4 is not modelled.

## 3. What the runs check

| Run | Shows | Bounds |
|---|---|---|
| `pipeline_rounds` | `NoStaleDownstream`, `ImplementsSerialRounds`, `EveryStepKeepsRunning`, `EditsTakeEffect` | 3 steps, timer + one administrator (5 kinds of request) + one route command, one round started by people, one fault, rounds of at most one period |
| `access_commands` | `PlacesAgreeAtRest` (list, mark and table, whatever overlapped), `EditsAreSafe`, `EnforcedIsInstalled` | 2 prefixes, shell, panel, watchdog, routing service, 2 commands of 7 kinds, 2 faults; any mark and list to begin with, table there or gone |
| `plane_repair` | `MarkedNeverDirect`, `CleanAfterRepair`, `RepairedOrGivenUp` | mode closed, 2 repairs, 2 faults |
| `collector` | `RecordsAreSound` (every row has its name, pruning is complete, drops are reported), `HealsInTime`, `PipeNeverStalls` | 2 domains, 3 lines, pipe and channel of one line, batches of 2, 2 rows kept, 2 faults |
| `authority_rounds` | `ListIsRight` (no server is forgotten early or kept for ever, disputed addresses only where a CDN steers), `KernelCatchesUp` | 4 addresses in 2 blocks, a zone with 2 servers and a CDN's with one, 3 sets of inputs, retention and reload interval of 1, 2 faults |
| `panel_accounts` | `RecordStaysSound` (a way in remains, what was revoked stays so, verified means proved, each unless an overtaken rewrite spoilt just that), `SpentStaysSpent`, `ThrottleHolds` | 2 overlapping requests of all kinds, 3 in all; 2 cookies, 2 keys; 2 addresses, a table of one entry, 3 failures, seconds of two units |
| `operations` | `SettingsAgree`, `EveryCallEnds`, `FreshAfterForget`, `UpgradeSettles`, `OperatorIsTold`, `MaintenanceCatchesUp` | 2 calls; 2 readers, 2 computations, 3 versions; 3 builds of which one does not start, 2 upgrades, one kill, one label that is not written; 4 sets of problems, 3 changes, 2 faults; 3 certificates, 2 faults |
| `addresses` | `TagHidesNoUpdate`, `ImplementsStore`, `WalkMatchesGet`, `RangesAreExact`, `AgreementIsExact`, `ZonesMatchLists`, `OwnerIsLongest`, `EvidenceDecides` | 3 versions of a database of which one is unsound, 2 look-ups, 2 faults; all trees of 2 nodes, 3-bit addresses under one IPv6 bit, cyclic ones included; words of 3 bits, lists of up to 2 ranges (`MaxRanges`); 3 databases over 4 addresses, 2 rounds; 2 providers, nested blocks; 2 collectors, 3 days |
| `keeping` | `GoodArchiveStays`, `ImportEndsWhole`, `RestoreIsSafe`, `FinishedEditsHold`, `ServedAsWritten`, `RecordsAgree`, `ReportIsExact`, `CnIsEarned` | maintenance's backup and an import, 3 backups, 2 daily and one weekly archive kept, one fault; 2 restores of 2 files; 2 editors, 2 names, 3 edits, one fault; 2 record commands, 2 names, 2 faults; 2 reports over 4 hours, 2 rows; 3 judged names, one lost query, 3 sets of suffix files |

The modules of the first five runs and the panel's fold their type invariants into a
property of the run (`PlacesAgreeAtRest`, `RecordsAreSound`, `ListIsRight`,
`RecordStaysSound`, `SpentStaysSpent`); those of `Pipeline` and `RoutingPlane` are proved.
The bounds are small because each hazard needs few actors: two processes and one
interruption. They are large enough that every action and every disjunct of the next-state
relations fires, that queues, tables, batches and limits are exceeded, and that every
property is violated by a plausible change of the code (the mutants: a dropped guard, an
off-by-one, a lock not taken, a missing reset, a swapped order). Every safety property of
these runs is also proved for all bounds (section 4). `MCPanel` uses the symmetry of requests, which no property tells apart.

Several properties name exceptions by a history variable: an upgrade killed after the
rename, a label that was not written, two restores in one second, overlapping collections,
a list changed between an edit's check and its end. In each the code takes no precaution and
no document promises one. Where the code recovers, the exception is no period in which
nothing is claimed: it names the one piece of state that is spoilt (`outdated`, `lost`,
`slipped`, `loose`, `unsure`, `behind`), the rest of the property holds meanwhile, and the
next undisturbed operation on that piece ends it. An import that was killed or could not go
back (`stranded`) and a kind of archive crowded out by unfinished files (`crowded`) stay
excepted. The list below says what happens in the exception.

Runs that are expected to fail record where the code does not do what its documents or
tests say:

| Run | What happens |
|---|---|
| `plane_lost_rule` | the watchdog's pattern for the fwmark rule also matches the prohibiting rule, so in mode closed a lost lookup rule is never seen and foreign queries are refused for good |
| `route_lists` | adding a name to one route list and taking it off the other are two writes; when the second fails the name is on both, and repeating the command returns before it looks at the other list (`site/guide/routing.md:68`: one list only) |
| `classify_order` | a zone found offshore for one name is passed over as unknown for the next, which then takes cn from a zone further up (`authority_test.go:77`: offshore must not be promoted) |

### Also seen while modelling

Reachable in the models or plain from the code, and not given a run of their own.

- Pipeline: `--preview` writes the time stamps, so the timer skips for a period steps that
  never published (`pipeline.go:221`); `cdn-rules` ignores `--preview` and publishes
  (`steps.go:81`), and `chnroute` writes its excluded list before its guards.
- Routing: stopping wg-quick runs revert, which removes the guard with the tunnel, so
  foreign queries leave directly until it is back (`routing.go:448`);
  `routing-setup apply --preview` restores the access table before it looks at the flag
  (`routing.go:79`); caches are flushed only when the failure count was above 0, and a
  failed flush is not tried again (`watchdog.go:186`); apply compares with
  `MIN_SET_ENTRIES`, the watchdog with 1000.
- Access control: `acl disable` removes the table before it writes the mark, so a restore
  in between installs it for good (`accesscmd.go:167`); the list is saved before the
  question and before `--preview`, so the watchdog may enforce it unconfirmed
  (`accesscmd.go:152`); overlapping edits of `acl.txt` or the block list lose one
  (`access.go:385`); the self-check compares only the presence of the table.
- Collector: a dropped-line count whose write failed is never written again.
- cn-authority: a prefix whose removal could not be published is retained for another
  period; when growth is put off, an address that was given up but lies in a wider retained
  prefix stays on the old list by itself, its record is gone, and the next round retains it
  for a whole period again (`cnauth.go:675`, `authority.go:312`); a failed hot reload is not
  tried again; a configuration that fails its check in a round killed before the roll-back
  keeps later rounds from updating the list.
- Accounts: operations of the helper read and write `auth.json` without a lock; the OAuth
  callback marks a credential as verified that was replaced during the exchange; a login,
  logout and login within one second yields a cookie that is already revoked; the last part
  of a second of a wait is not served (`ops.go:101`).
- Helper: an overlapping `set_cache_ttl` or restart leaves the live option different from
  the file, and so does a `set_option` that was killed at its limit after it took effect
  (`exec.go:48`); a field missing from the file is not reported; the panel waits 180 s for
  `cert_renew`, which the helper gives 300 s.
- Upgrade: killed between rename and restart it is never completed, and its unproven
  binary becomes the next upgrade's backup; checksum and build-id are written and copied
  without looking at the result, and a way back without a copy leaves the failed build's id
  (`upgrade.go:291`, `301`).
- Alerts, maintenance: a message whose record was lost loses the recovery message too; an
  interrupted copy leaves a mismatched pair until the next renewal; a log step killed
  between `chown` and `log_reopen` is taken for finished.
- Backups: overlapping ones can remove each other's finished archive when one is kept; torn
  archives and ones whose database snapshot failed count; an import that fails without a
  backup of its own leaves the services stopped; the way back does not restore secrets, nor
  remove files and keys only the package had (`migrate.go:313`); an import counts as complete
  although a service did not start (`migrate.go:366`); units that cannot be copied are
  missing from a backup without a word (`backup.go:225`);
  `migrate` never ships the age identity; a retry is refused because `config.env` exists.
- Migration: copies are named by the second; a restore does not take the route-list lock,
  and one that broke off does not name its copies.
- Lists, records: a failed rebuild for cn skips the reload for hk; local records are
  written and applied without a lock; the error of putting a refused configuration back is
  discarded although the message says it was put back, and a configuration that could not be
  read before is removed (`localrecordcmd.go:187`).
- Operator commands (not modelled): with a hand-made `wg0.conf` and no `cn-private.key`,
  `wg-peer --apply` registers a new key at the other node; when a later step fails the old
  configuration is restored, whose key no longer owns the tunnel address there
  (`wgpeer.go:161`).
- Statistics: a deletion forgets shared results before it resets the remembered hours, so
  a report in between may show rows that are gone; hours are validated by row count only.
- Addresses: a database in which all IPv4 addresses have one record, or none, is walked
  beyond its tree (`geoip.go:365`);
  `geo-disputed` and `geo-promoted` may be of different rounds; the country of
  an agreed span may come from another span; the owner among equal CDN blocks is arbitrary;
  a partly failed feed reads as "mismatch"; the kernel's set is loaded before the file is
  renamed; overlapping collections of forged addresses lose observations, and the list's
  header says entries are never removed although they expire (`collect.go:205`).

### Fairness

- `Pipeline`: the timer keeps firing (`StartTimer`), the clock ticks, a process that
  can take a step takes it, a waiting route command that can have the lock takes it
  (it polls every 2 s). Nothing obliges people to start rounds, and faults are bounded.
- `RoutingPlane`: systemd runs the processes it started and the watchdog's timer keeps
  firing. Nobody is obliged to query, to bring the tunnel back or to clear the count.
- `AccessControl`: the watchdog's timer only; nobody has to answer a question.
- `Authority`: a round that was started and is not killed goes on, and the routing unit
  finishes. Rounds need not start; `KernelCatchesUp` is about behaviours in which they
  keep reaching the kernel.
- `Collector`: the reader goroutine runs. The consumer is *not* assumed to make
  progress while the reader lives, since a database call may take long; once the reader
  is gone it ends, and `select` does not prefer ticks for ever (strong fairness of the
  receive, Go's random choice).

- `HelperOps`: every command has a time limit, so a step ends; slots and the mutex are
  granted in turn (strong fairness: Go's channel and mutex do not starve a waiter).
- `Alert`: the watchdog's timer fires and a round ends. `Maintenance`: a step is begun again
  after its interval and ends; acme.sh finishes what it began and mosproxy looks at its
  files. Faults are bounded in both: what is shown is recovery after the last one.
- The other modules state safety only, and assume nothing.

Deadlock is not checked where a behaviour may end: in `Collector` after a read error
mosproxy goes on without statistics, and in the four composed instances nothing is left
to do once the bounds on requests, versions, rounds and faults are used.

## 4. What is proved

With TLAPS, for every list of steps that `validate` accepts, any sets of processes,
addresses, names and files, and all bounds. The assumptions on the constants are the named
`ASSUME`s of the modules, which TLC evaluates in the runs: bounds are numbers, "nobody" is
nobody, sets that are counted (`Judged`, `Addrs`, `Databases`, `Providers`) are finite, a /24 has
more than one address, words and trees have at least one bit. No other hypothesis is made, with one
exception that is stated in its theorem.

- `Pipeline_proofs`: `TypeCorrect`, `NoStaleDownstreamHolds`, `RoundIsConsistentHolds`,
  `BlockedIsReportedHolds`, `RoundsAreSerial`. The inductive invariant is the type invariant and, per
  process: only the holder of the lock is in a round (a dry run takes no lock and writes
  nothing); every step behind the round's position is done, failed or blocked and those
  exclude each other; what ran had its needs done; what the round wrote is behind its
  position and has missed nothing. The last part is what makes `RoundIsConsistent`
  inductive: needs point backwards, so a later step can only make later products stale. The
  refinement follows from it action by action: what a process without the lock does is a
  stutter, because it runs no step; the holder's step has missed nothing but an edit, so what
  it publishes is the abstract product; a blocked step's missing need lies behind it and is
  not done, so it failed or was blocked.
- `RoutingPlane_proofs`: `PlaneTypeCorrect`, `MarkedNeverDirectHolds`,
  `ChainNeedsSetHolds`, `RepairBudgetHolds`, `CleanAfterRepairHolds`. The properties
  are not inductive as they stand; the invariant adds where apply and the watchdog are:
  from the command after the prohibiting rule on, and as long as the chain stands, the
  rule is there unless it was taken away from outside (`GuardInv`); when the chain is
  about to be installed the set is not one that failed verification (`SetInv`); a
  restart that is about to be made has been counted, or its count could not be saved
  (`CountInv`); while mosproxy is flushed Unbound's cache stays clean, so it cannot
  refill mosproxy's (`CacheInv`).
- `Collector_proofs`: `HealsInTimeHolds`. The invariant relates the history to the
  code's own counter: the batches lost since the last fault are at most `failures`, and
  fewer than `ReconnectAfter` while the handle is not open and the loop runs, because
  the flush that reaches the limit rebuilds the handle and resets the count.
  `TablesAreSound` states `RecordsAreSound`. Its invariant (`RInv`) counts: the rows, the
  batch and the lines in channel and pipe are together no more than the lines written, so
  no counter outgrows its type; ids of rows are distinct, so what is left after pruning by
  id is at most `eventMaxRows`; a name is dropped only when no row of it can be left,
  because rows expire before names do.
- `AccessControl_proofs`: `PlacesAgree`, `EditingIsSafe`. `PlacesAgreeAtRest` speaks of the
  moments when nobody is at work; `AccessInv` says for every step of every process what it
  still knows (the list it carries is the file, the table it has written enforces it, the
  mark is absent, its own client is in) as long as that very thing is not `outdated`, and
  that, when the last to write was not undermined, the three places agree or somebody is
  halfway through an edit. Whoever writes makes what others rely on outdated, so the
  invariant of each process survives the steps of all others without excluding any.
- `Panel_proofs`: `RecordIsSound`, `SpentIsSpent`, `WaitsAreServed`. `AuthInv` bounds keys by
  those ever issued. Of a request that was sent it says what its handler checked of the
  record, as long as no rewrite has touched that aspect; once the helper has read, what was
  read cannot change any more, so an overtaking rewrite spoils the way in or the proof only
  between the handler's check and the helper's reading. Only the key is compared with the
  record that is replaced, and a key comes back only by a rename over a newer record. A cookie that
  was logged out is on the list until it has expired, and the step file is the highest step
  accepted (`SessInv`). A wait that is being served is in the table with the count and the
  time it follows from, and pruning never takes such an entry (`GuardInv`); that `waitFor`
  grows with the count is a lemma. The conversion to whole seconds
  (`Seconds`) loses no more than the last part-second of a wait.
- `Operations_proofs`: `UpgradesSettle`, `ReadersAreFresh`, `SettingsHold`. Who holds the
  lock is the only one at work, and at each of its steps either the old proven build is in
  place or it is saved; a label that is not `loose` names the installed build, and a copy of
  the build-id that is not loose the saved one (`UpgradeInv`). A computation of the current
  generation reads no version older than the last forget (`SharedInv`). Of an option that
  has not `slipped`, at most one call has set it and not yet written the file, the option
  has that call's value, and what an editor read under the mutex is still the file
  (`HelperInv`); a command with an unknown effect makes its option slip, and a later
  undisturbed change or restart ends that.
- `Addresses_proofs`: `GeoInvariant`, `TagIsSafe`, `FilesImplementStore`,
  `EvidenceDecidesAlways`. The refinement needs that a remembered time which equals the
  file's was taken from the file that is there (`TimesTellVersions`): times grow with every
  rename, and `Stat` comes before `Open`. Every action of `GeoFiles` then is an action of
  `GeoStore` or changes nothing it sees. Of an undisturbed collection the invariant keeps
  what the evidence file will say and that nothing observed within the age limit is missing.
  `ListStaysRight` states `ListIsRight` of `Authority`. Its invariant (`AuthInv`) says what a
  round has computed (the list covers what is derived and what is retained, nothing retained
  is disputed or expired), that an address is not missing for longer than what covers it has
  been retained, that the files a round has written are of one computation, and that a
  server derived in time is in the record which the next round will start from: the files,
  or what the round is about to write. That `FewestPrefixes` keeps every address is a lemma. The
  attempt showed that retention is not bounded as first stated: the count starts anew in the
  case of section 3's list under cn-authority; the property says so now, and the
  run's inputs reach the case.
- `Addresses_proofs` also states what the algorithms on addresses compute, for words of any
  length and inputs of any size:
  - `RangesStayExact`: sorting keeps every range and puts them in order; of each pass over
    the sorted list the invariant (`RangeInv`) says that what has been returned is exactly the
    wanted addresses below the point it has come to, and that its ranges are in order and apart;
    `cut.hi + 1` cannot wrap, since what is removed never holds the last address, which is not
    global, and that the base may end with it is part of the theorem. Splitting into
    prefixes is the same argument on what is left of one range: the next prefix begins at its
    first address, is aligned and ends within it.
  - `AgreementStaysExact`: before each edge the depth is the number of databases that hold
    the last address before it, and the ranges closed so far together with the open one are
    the addresses below the edge on which enough agree (`SweepInv`). The change of depth at an
    edge is the difference of two such numbers, whichever ranges begin and end there.
  - `ZonesStayMatched`: merging keeps the rows in order, apart and each of one zone
    (`RowsRight`); so the last row that does not begin behind an address is the only one that
    can hold it, and the search reads that one.
  - `OwnerStaysLongest`: what lies above the search's position and holds the address is no
    longer than the best so far (`SearchInv`); since `maxHi` is the largest end up to a
    position, nothing below the place where the search stops reaches the address, and what the
    binary search passed over begins behind it.
  - `WalkAlwaysMatches`: every node on the stack stands for a block of addresses whose own
    lookups come through it, no two blocks overlap, and of every address in none of them the
    visitor was told exactly what its lookup answers (`WalkInv`). Each turn replaces a block by
    its two halves, told or pushed. Nothing is assumed of the tree: a node reached with all
    bits used stands for no address, what is found below it is a prefix longer than an
    address, which no visitor takes (`Network`), and the limit on depth drops it. A turn that
    fails has found an address whose lookup runs out of the file or of bits.
- `Keeping_proofs`:
  - `EditsHold`, `FilesAreServed`: the lock belongs to the one route command between its first
    read and its last write, the name it has put on one list and not taken off the other is
    torn, and of every other name the files say what was told; a list that is not served as
    written is one its editor will reload.
  - `ListConfAndUnboundAgree`: a command that runs alone has the list it read, what it has yet
    to tell Unbound is its `todo`, and the configuration is the list, the one from before, or
    `stale` (`LocalInv`). As soon as commands overlap, what they are about is `behind`; a
    command that has worked alone up to its check ends `stale`, a restart on a configuration
    that is not stale ends `behind`.
  - `ImportsEndWhole`: every part that is not `unsure` is the host's own or, up to where an
    import has come, the package's; on the way back it is the host's own again once passed:
    written over, or never touched. What the backup did not hold and the import had written
    becomes `unsure` there, as does a part that was torn (`ImportInv`).
  - `ArchivesStayGood`: files have different names and times; a backup that removes old ones
    has tested its own, so before the newest good archive of a kind there are only unfinished
    files of others, fewer than are kept.
  - `ReportsAreExact`: while nothing is being deleted, what is remembered of an hour that can
    still be asked for is a subset of the database's hour (rows are only added to it: pruning
    spares what a report may ask for), and a finite subset of the same size is the whole. An
    undisturbed report keeps this for its own hours while time goes on.
  - `RestoresAreSafe`: what a restore has replaced is in its own directory of copies, unless
    two restores began in the same second, and a restore writes what the manifest vouches for.
  - `VerdictsAreEarned`: whatever a worker or the shared cache believes of a zone its
    authorities have earned, and a collapse drops a name only below a kept one. What a list
    of suffixes parses to is an induction over its lines; the theorem assumes that
    `PublicSuffixes` are the suffixes of every list in use (`SuffixesAsListed`), which TLC
    evaluates for the instance's files.

`RoundIsConsistentHolds`, `BlockedIsReportedHolds`, `ChainNeedsSetHolds`,
`RepairBudgetHolds`, `GeoInvariant` and the two theorems on types are not repeated by a run:
what TLAPS has proved for all bounds TLC need not check. Every inductive invariant was checked by TLC on the run's instance first.

Induction. What sorting or folding a list returns is a fact for every length of it, and the
library's induction theorems cannot be used here. `EveryNumber` replaces them: a *set* of
numbers that holds 0 and with each number the next holds all, which follows from the natural
numbers being well founded; each induction names the set it is about. `RecursionExists` gives
a function that satisfies a recursive equation, from which follows that the function a
recursive definition stands for does (`Sorted`, `Collapse`, the merge of rows). The models use
recursive functions throughout and no RECURSIVE operator.

Only model-checked: the liveness properties (`EveryStepKeepsRunning`, `EditsTakeEffect`,
`RepairedOrGivenUp`, `EnforcedIsInstalled`, `PipeNeverStalls`, `KernelCatchesUp`,
`EveryCallEnds`, `OperatorIsTold`, `MaintenanceCatchesUp`), which are out of this prover's
reach. Every safety property of a passing run is stated by a theorem.

## 5. Not modelled, and why

- Parsing, formatting, the wire format and the layout of database records are data without
  control; a model takes their result, or the verdict on a malformed input.
- Network measurements whose reports nothing reads back (`cdnhit`, `ecsprecision`,
  `ecsaudit`, the orphans' audit), the self-check and the read-only pages: they change no
  state.
- The operations menu and the front end call the commands that are modelled; the
  installers run once; configuration is read by each process as it starts, and one that
  changes while a process runs is outside the models.
- Clocks that jump back (every step then counts as fresh until the clock catches up,
  `pipeline.go:138`), and two manual `routing-setup` processes at once, which no lock
  prevents (`routingsetupcmd.go:30`).
- Unbound's own copy of the ECS list, the fan-out of `ecszone`, the panel's node cache.

## 6. What is left

1. `RoutingPlane` and `Upgrade` as implementations of abstract specifications ("refused,
   tunnelled or unmarked"; "the running build is a proven one").
2. The commands around the models that are partly covered (`PROJECT.json`, components): the
   panel's node cache, probing's own timeouts, Unbound's copy of the ECS list.
