# Hoardodile: specifications of the storage core

Hoardodile is a self-hosted library: a Node server (`apps/server`) keeps one
SQLite database and a tree of files, a desktop shell (`apps/desktop`) ships and
updates that server, a web application shows it, and plugins extend it. Its
library has *versions*: the latest one is written to, older ones are frozen
archives. What is hard in this code is not any single handler but what happens
when handlers meet: commits, backups, archive creation, plugin updates and
recovery at boot all touch the same tree, each is a chain of awaits, any file
operation may fail, and the process may stop anywhere.

This directory holds TLA+ modules of that core, TLC configurations that check
them on small instances, and TLAPS proofs of what the checks show: every safety
property, step property and refinement that a passing run checks is also a
theorem, for all values of the constants. Paths below are relative to the
repository.

## 1. The system

| Component | State | Operations | Interacts with | Correct when |
|---|---|---|---|---|
| **Storage coordinator** `plugins/host/src/hoard/coordination.ts` | `frozen`, `writers`, `waiting`, `revision`, the promise chain `tail`, listeners, the lease in each async context | `write`, `freeze`, nested calls, abort signals, drain time limit | every file commit is a `write`; backup, restore, checkpoint and archive creation are `freeze`s | a freeze has the root to itself; nobody waits for itself or sleeps through a wake-up; the counters tell the truth; drains end |
| **Plugin installation** `apps/server/src/domain/plugin/{install-transaction,service,plugin}.ts` | the installed tree, transaction directories `local/plugin-transactions/<uuid>` (marker, `next`, `previous`), `seed-removals.json`, the registry | install/update, uninstall, rescan, seeding, recovery at boot | commits of the coordinator; version paths | the installed tree is complete, never lost, never an older one; the vault is kept; boots succeed |
| **Checkpoint publication** `apps/server/src/infra/storage/checkpoint.ts` | `versions/<v>/checkpoint`, `local/checkpoint-publication` (`next`, `previous`, `pending.json`) | prepare, recover | runs under the freeze of a backup, recovers at boot | a checkpoint is complete and only replaced by a newer one |
| **Archive versions** `plugins/host/src/hoard/{publish-version,version}.ts`, `apps/server/src/domain/version` | `versions/<v>`, its snapshot and metadata, `local/archive-publication`, the active version, maintenance mode, the context of the last reload | create, publish, recover, switch, reload | runs under a freeze; asks the server to reload its storage context | the history of archives is complete; results tell what happened |
| **Job manager** `packages/backup/src/jobs.ts` | the `jobs` map, one record file per job with a chain of writes, abort controllers | start, execute, cancel, retry, close, load | runs every backup, archive, restore, comparison and drill | records tell the state, accepted jobs run |
| **Library protection and restore** `apps/server/src/domain/protection` | `maintenance.json` (restore journal), repositories, schedule | restore, backup, retention, recovery at boot | job manager, coordinator, storage reload | a library that is served or backed up is the old or the new one |
| **Storage context reload** `apps/server/src/server.ts` | in-flight requests, the reload gate, drain flag, runtime references | park, drain, swap, fail into maintenance | archive creation, selection, restore | nothing is replaced under a request; no reload waits for a request that waits for it |
| **Resource files** `apps/server/src/domain/res/{service,commit,files,staging}.ts` | staged files, resource folders, asides, rows, the cached file list | create, cover, list, delete, trash | coordinator, plugin hooks | what is created is whole, what fails leaves nothing |
| **Metadata rebuilds** `apps/server/src/domain/res/meta-ops.ts`, `infra/{keyed-task-queue,concurrency-limiter}.ts` | metadata of a row, queues, slots, `hashesInFlight` | enqueue, run, view, list, replace a content plugin | plugin hooks | what a resource says comes from its own plugin |
| **Plugin downloads and consent** `plugin/{asset-service,consent}.ts`, `plugin-vault.ts` | pending tickets, session allowlist, staging files, the vault | request a batch, decide, time out, dispose, commit, delete | coordinator, reload | all or nothing, bounded by the quota, archives untouched |
| **Desktop resource swap** `apps/desktop/src/main/{resources-swap,resource-updater}.ts` | the payload, `.swap-pending`, `.olds/`, soak timer | stage, apply, commit, roll back, recover at boot | server process | every interrupted swap ends in one whole payload |

The remaining parts (backup engine, sessions, tags, the other domain services,
the plugin sandbox, archive reading, the desktop shell, the web application,
plugins, developer tools, shared packages, the unused sync engine) are listed in
`PROJECT.json` with the reason they are not modelled: most are single
synchronous database transactions, parsing of file formats, or user interface.

How the modelled components meet:

* a file commit is `coordinator.write`; archive creation, restore and
  checkpoints are `coordinator.freeze`. `StorageCoordinator` establishes that
  they exclude each other. The other modules use that and no more: in
  `VersionPublication`, `CheckpointPublication` and `LibraryRestore` one owner of
  the freeze acts at a time; in `PluginInstall`, `PluginVault` and
  `ResourceFiles` commands run concurrently, because commits do, and archive
  creation waits until none is active (`ResourceFiles` therefore has one version);
* archive creation and restore are jobs of the job manager; what they do is
  `VersionPublication` and `LibraryRestore`. Both ask for a reload while they hold
  the root, and `StorageReload` has requests, reloads and those two jobs together;
* at boot the server recovers publications and plugin transactions before it
  serves. Each module has its own recovery, entered after every crash and
  re-entered when it fails or the process stops again.

## 2. Modules

Each variable and action names the code it stands for in `PROJECT.json` (`map`).
`<Component>Proofs` extends a module with its theorems; three modules are proved
in the one of a component they share their subject with: the reload with the
coordinator, downloads with the installation of the plugin, metadata with the
files of the resource. Those two modules share no name, so the proofs extend both.
Operators commented `Mutation:` are plausible bugs; no specification uses them.
`PROJECT.json` (`mutants`) pairs each with the property that finds it.

### StorageCoordinator, StorageGate

One action per uninterrupted stretch of JavaScript. `WriteNested`,
`WriteRefused`, `WriteEnters` and `WriteParks` are the ways through the start
of `write()`; `ResumeEnters`, `ResumeParks` and `ResumeCancelled` are what
happens after `changed()` resolves or rejects; `CommitEnds` and `NestedEnds` are
its `finally`. `FreezeCall`, `FreezeBegins`, `DrainContinues`, `DrainFails` and
`FreezeEnds` do the same for `freeze()`, `FreezeSkipped` for a freeze aborted
while it was queued. The async context is explicit: a call made by an operation
carries that operation's lease, and `live` is the set of leases not yet
ended, so work that an operation left behind is in the model too. The order in
which settled promises resume their waiters is left open, which includes every
microtask order.

`StorageGate` is the promise: any number of commits, or one holder alone, and a
version that counts commits. `ImplementsGate` is the refinement.

### PluginInstall

One plugin's directory with any number of installations, uninstalls and
downloads of it. A tree is the package it came from, the vault files in it, and
whether it is complete; renames are atomic, copies and recursive removals are
not. The steps of an installation are those of `installPluginTransaction`
(prepare, copy the package, copy the vault, write the marker, move the old tree
aside, publish), `Catch` and `EndInstall` its `catch` and `finally` with their
own failures, `Recover`, `RecoverDiscards` and `RecoverRefuses` the branches of
`recoverPluginInstallations`. A rescan seeds the bundled original (`Seeded`).

Two history variables carry the exceptions the invariants need: `overlapped`
(another kind of command ran beside one it may disturb) and `outlived` (a
registered transaction survived its call because a cleanup failed). The
invariants hold while neither happened (`Orderly`); what the code does otherwise
is in section 5.

### CheckpointPublication, AtomicReplace

A preparation recovers, clears, stages, writes `pending.json`, moves the old
checkpoint aside, moves the new one in, sweeps and returns; an error in it runs
the recovery of the catch block. Recursive removals go entry by entry in any
order, so a crash may leave any subset. `AtomicReplace` is the promise: a
place has one generation in force and a commit only puts a newer one there.
`InForce` is the refinement mapping: the generation in place, else the one
recovery would put there; one that is not complete maps to a generation nobody
commits, so the refinement says that every one in force is whole.

### VersionPublication, ArchiveHistory

`service.create`, `publishVersion`, `recoverVersionPublication`, the catch
block, the storage reload and `switchTo`. `pc.for` is the caller of the
recovery (boot, the start of a publication, its end, its catch block) because
what an error means depends on it. Creators pass their checks before they wait
for the freeze (`CreateCall`), and nothing is checked again when it is granted
(`Begin`). `writeActiveVersion` writes in place, so an error or a crash may
truncate it (`TornActive`). `view` and `readOnly` are the context the last
reload resolved: file commits go there.

`ArchiveHistory` is the promise: creating an archive is one step that freezes
the latest version and opens and selects the next one. The refinement places
that step at the write of `pending.json`: from then on every error and every
crash leads to the new version.

### JobManager

`start`, `execute`, `cancel`, `retry` and `close`. The writes of one record are
a chain of promises (`writes`), each with the state it captured and the call
that awaits it, and each may fail. `WriteEnds` resumes the waiter of a write.
`Restart` reads the records back and turns active jobs into interrupted ones.

### LibraryRestore

The jobs of the protection service by stages: accepted, waiting for the
repository, waiting for the root, running. A restore writes its journal, enters
maintenance, restores into the tree, installs the database, reloads and leaves;
each step may fail or be the last one of the process, and the boot opens the
library only when no journal stands. What a library holds is the generation it
came from, `Mixed` when parts of several are on the disk. `leftover` is a
publication an archive job left unfinished.

### StorageReload

Requests arrive, are counted, write (waiting for the root if a job holds it),
answer, or lose their client; a reload parks newcomers, aborts those that begin
to wait, drains, closes the database and opens another, or reaches its limit and
closes the library. A reload switches in three steps (`Drained` closes the
database, `Opened` opens the other, `Switched` opens the gate); a restore enters
maintenance in two, because it looks at the count of requests
(`MaintenanceDrained`), awaits three operations, and closes the database
(`Entered`) without looking again. `told` and `cancelled` are what the code knows
of waiting requests. Selections, the archive job and the restore ask for reloads,
which form a chain.

### ResourceFiles

A creation with all its steps and its undo, for resources that name the same
staged files, beside listings, covers, soft and hard deletion, the removal of
staged files and a crash. A folder is the set of its files, with the cover as the
one dotfile; `aside` is the folder that was renamed away. Removals whose error the
code ignores may fail: those of the aside (`stuck` tells where) and those of what
was derived from the folder, the list among it (`missed`).

### MetaRebuild

What a row says is the plugin it comes from. The queue runs one task per unit and
resource and keeps one to follow it, within a number of slots; a task that was
handed a slot takes it in a step of its own (`granted`). Detail pages, several of
one resource, run their rebuilds beside the queue. Plugins provide metadata, hashes,
both or neither (`Describing`, `Hashing`): one that provides none leaves in the row
what is there. Replacing a plugin is one step that clears the row and a later one
that enqueues, or does not; `Revalidate` replaces a plugin the user had named
without clearing, and enqueues at once.

### PluginVault

A batch from its first look at the vault through ticket, fetches, measurement
and the commit of each file, with the steps of `commitVaultFile` (look, check,
rename) apart, because batches interleave in them. Time limit, disposal and
withdrawal of a plugin end tickets.

### ResourceSwap

Each rename of an entry is a step, since the process may stop between any two;
the steps that run without an await are not interleaved with anything else. The
soak timer, the exit of the server, the tray and the next start of the
application act between them.

## 3. Runs

The `MC*` modules extend a component and define what a `.cfg` file cannot say;
the `.cfg` files give constants their values.

| Run | Instance | What it shows |
|---|---|---|
| `coordinator` | 2 writes (1 of a request), 2 freezes, fair runtime | exclusion (`ExclusiveFreeze`), accurate counters, no lost wake-up, refinement of `StorageGate`; `DrainEnds`: the time limit ends every drain even if a commit never does; `CallsSettle`: if operations end, every call settles |
| `plugin_install` | 2 installations, 1 uninstall, 1 download, a bundled original, 2 versions, 2 crashes, 1 file system error | never lost, unchanged until committed, never an older package, vault kept; recovery refuses to boot only after a transaction outlived its call |
| `checkpoint` | 2 versions, 3 preparations, 2 crashes, 2 errors | what was returned stays and is whole; refinement of `AtomicReplace` |
| `version_publication` | 3 versions, 2 creators, 1 crash, 2 errors, 1 switch | complete history, true results (unless `unnoticed`, below), refinement of `ArchiveHistory`, every creation ends |
| `jobs` | 2 jobs, 1 failing write, 2 cancellations, a close, a restart | records tell the state, accepted jobs run |
| `restore` | 3 jobs out of 2 restores, an archive, a backup, a retention; 2 errors, 1 crash | no library between two generations is served or backed up, the point of a restore is kept, restores settle |
| `reload` | 2 requests of 2 commits, a selection, an archive job, a restore, 1 time limit, 1 disconnection | a reload closes the database, and a restore replaces the library, under no connected request (a restore: but those parked when it began); drains end although the job that drains may hold what requests wait for; parked requests go on |
| `resource_files` | 2 creations of the same 2 staged files, one touched by everything else; 2 errors, 1 crash | what is created has its files and cover, what fails leaves nothing, a kept list is complete unless it escaped the clearing |
| `meta` | 1 resource on 2 pages, 3 plugins (one without metadata, one without hashes), 1 replacement, 2 views, 1 failing hook, 1 slot | once rebuilds end, what a resource says comes from its plugin, unless a rebuild of an earlier one ended after the clearing and none that writes it followed; no slot and no mark of a hash rebuild stays held; every enqueued rebuild begins |
| `vault` | 2 batches of 3 files, one shared, a quota of 3, 1 archive, 1 error, 2 deletions or switches | overshoot is at most a file per other batch; all or nothing; archives stay; batches end |
| `resource_swap` | 4 entries, 4 releases, 2 errors, 2 exits | the server runs on one release, the replaced one is kept until the commit, swaps and recoveries end |
| `swap_overlap` | 2 entries, 3 releases, 1 exit | *violated*: section 5 |

### Bounds, and why they are enough

Every bound is a constant with `Max` in its name, one commented `bound`, or the
size of a set of calls. For safety the proofs of section 4 remove all of them:
the bounds matter for the liveness properties, and for the argument that the
instances are rich enough to refute what is wrong (the traces of section 5 and
the mutants are found within them).

* *Coordinator*: the decisions in the code compare `frozen`, `writers > 0`, and
  membership of a lease. Two freezes are the first with a successor in the
  chain; two writes are a commit in progress with a nested or a parked one.
* *Plugin*: a transaction interferes with the next one on the same target, with
  a later uninstall, or with a version created in between: two installations,
  one uninstall, two versions. The budget of errors covers a step of a command
  or its cleanup; the second crash hits the recovery from the first. A removal
  is one step whose remains (`Remains`) show only when an error or a crash cuts
  it short: nothing reads a transaction directory in between.
* *Checkpoint*: two crashes and two errors put a failure into the recovery from
  a failure; three preparations give an old, a returned and a new generation.
* *Version*: three versions let an interrupted publication be followed by
  another; two errors reach the second recovery, in the catch block.
* *Jobs*: jobs share only `close` and `retry`, which two jobs exercise; the two
  cancellations may be of one job, at once or after a write that failed, and meet
  two writes of its chain. The proof allows any number for each job.
* *Restore*: three jobs are one that holds the locks, one that waits behind it
  and was accepted before, and one that is asked for while the first ran; a
  second error hits the attempt after the first, the crash any phase.
* *Reload*: two requests are one that is handled and one that is parked, two
  commits reach the second wait of a request, and three callers of reloads make
  one follow another.
* *Resource files*: two files are the least that two creations can divide
  between them; what touches the second resource would touch the first as well,
  since they share nothing but the staged files. Two errors put one into the
  undo of the other.
* *Metadata*: one slot and two units make a task wait; three plugins are one that
  provides both, one without metadata and one without hashes; two pages are the
  first that rebuild beside one another; and resources share only the slots. With
  two replacements the invariants hold as well (11 million states).
* *Vault*: the overshoot needs two batches that together exceed the quota; the
  shared file makes one replace what the other looked at.
* *Swap*: the payload has four entries; four releases are a first one, an
  update, one over its backup, and one more to follow a rollback.

### Fairness

`RuntimeSpec` of the coordinator assumes that a settled promise resumes its
waiter and that timers fire: that is what a JavaScript event loop does,
`AbortSignal.timeout` included. `OperationsEnd` (the functions passed to `write`
and `freeze` end) is a premise of `CallsSettle` and of nothing else. The other
fair specifications assume weak fairness of the steps of a call, a recovery or a
handler in progress, which says that file operations, hooks and handlers end,
successfully or not; nobody is assumed to call anything, no client to answer, and
errors and crashes are bounded, not unlikely. Without the bound a recovery that
fails for ever would never end, and the code does not promise that it does. In
`LibraryRestore` taking a lock is strongly fair: `JobSteps` is enabled again and
again while others hold the lock, and the code grants it in the order of requests.
In `PluginVault` the denial of a ticket is fair because its time limit is one; in
`ResourceSwap` the start of the application after an exit is, because a swap that
nobody starts again is not the code's to end.

`CHECK_DEADLOCK FALSE` is set where the system may stop for good: all versions,
jobs, requests or calls of the instance are used. The other modules have an
explicit `Quiescent` step and are checked for deadlock.

## 4. Proofs

Every theorem is about the specification without fairness, for all values of the
constants that satisfy the named assumption of its module. Those say that bounds
are numbers, that sets which are counted are finite, and that names which stand
for different things are different; TLC evaluates them on every run. An invariant
that a run checks is seldom inductive: each module defines `IInv` (`ReloadInv`,
`VaultInv` and `MetaInv` for the three that share one), which adds what the code
relies on without saying so, and proves that `Init` establishes it and every
action keeps it, with one lemma per action or group of actions. The other theorems
follow from `IInv`, and the step properties and refinements from `IInv` and the
action. Before it was proved each `IInv` was checked by TLC as an invariant of a
small instance.

**`StorageCoordinatorProofs`** (`TypeCorrect`, `FreezeExcludesCommits`,
`CountersAreAccurate`, `WakeupsArrive`, `GateImplemented`), for any finite set of
writes and any sets of freezes and requests. That a freeze starts on an empty root
is a test of the counter `writers`, so the counter has to be the size of the set
of commits inside (`CountersInv`); a write passes the gate without a test when it
is nested, so the live leases have to be exactly those of operations in progress
(`LeasesInv`, `NestedUnderLiveLease`); a freeze releases the gate without asking
who closed it, so the freeze in force has to be the head of the chain
(`InForceInv`); and an operating freeze has to keep finding the root empty
(`HeldInv`). A suspended call has a commit or a freeze in progress that will wake
it, which needs the counters and the chain. The refinement of `StorageGate` takes
the actions one by one: each is a step of the gate or leaves alone what it shows.

**`JobManagerProofs`** (`TypeCorrect`, `RecordsTellTheState`). `RecordIsTrue` speaks
of a record whose chain of writes is empty; the invariant has to say what the
writes still in the chain will leave behind. `Chain` does, for one job: the last
write carries the state of the job, and `start` and `execute` have at most one
write of their own, the one their stage waits for. `OneJobMoves` lifts the lemmas
to all jobs.

**`CheckpointPublicationProofs`** (`TypeCorrect`, `CheckpointsAreKept`,
`NeverUndone`, `PublicationIsAtomic`). What is in place is whole (`PlacesWhole`);
what is staged is newer than all of it (`Newest`); a registered publication has a
checkpoint in place or a whole one to put there (`Registered`); and each step
knows what stands on the disk (`Standing`). So recovery never needs the branch
that puts the old checkpoint back, and under the mapping `InForce` every step
either stutters or commits a newer whole generation in one place.

**`VersionPublicationProofs`** (`TypeCorrect`, `HistoryStaysComplete`,
`HistoryImplemented`, `OutcomesAreTrue`). A registered publication is staged or in
place (`PendingInv`); of the earlier versions only the last may still have its
database staged (`SnapshotsInv`); each label of recovery and publication knows how
far it is, for each of its callers (`LabelsInv`); and a creation in its catch block
knows whether its version came to be (`BeforeInv`), on which its result rests. The
latter two are mutually dependent: an error moves between their labels.

**`PluginInstallProofs`** (`TypeCorrect`, `PluginIsNeverLost`,
`NothingTouchedEarly`, `RetiredIsGone`, `DownloadsAreKept`,
`RecoveryNeverRefuses`). One installation at a time has left the queue
(`ChainInv`); a transaction directory holds what its stage says (`Staged`). While
the commands are `Orderly`, a registered transaction is the only one, of the latest
archive, and has a tree to take (`Recoverable`), which is why recovery never
refuses; neither the tree in place nor one recovery may take is retired (`Away`);
and both, with the tree being staged, have the files of every download (`Kept`).

**`LibraryRestoreProofs`** (`TypeCorrect`, `ServedLibraryIsWhole`,
`BackupsStayWhole`, `RestoredPointIsKept`). The repository and the root are held by
the jobs whose stage says so (`LocksInv`), a restore in progress is journalled
(`JournalInv`), and without a journal files, database and open handle are of one
generation (`WholeInv`, unless an old publication was replayed over it).

**`ResourceSwapProofs`** (`TypeCorrect`, `ServerRunsWhole`, `ReplacedIsKept`), for
any number of entries. A release is staged as a whole (`StagingInv`); every entry
of the payload is untouched or in the backup, up to the entry the step has reached
(`PayloadInv`); a timer belongs to the backup that is there (`TimerInv`). The latter
two hold while no swap began over another's backup, the exception of section 5.

**`ResourceFilesProofs`** (`TypeCorrect`, `CreationsAreWhole`,
`FailuresLeaveNothing`, `ListsOfCreatedAreWhole`). Creations share the staged
files and race for them, yet the invariant (`FolderInv`, `CoverInv`, `UndoInv`,
`ListInv`, `FailedInv`) is local to one resource: what the others take decides
whether a creation succeeds, never what is in its folder.

**`StorageReload`**, in `StorageCoordinatorProofs` (`FilesReplacedAlone`,
`DatabaseClosedAlone`, `ReloadTypeCorrect`). A request is counted from the moment
it is let in until its response or its client is gone (`CountedInv`); once a
restore has its journal no request is let in or parked, so those in progress when
it closes the database or replaces the files were at the gate when it began
(`RestoreInv`). A reload looks at the count and closes in one step, and needs no
such exception.

**`PluginVault`**, in `PluginInstallProofs` (`VaultTypeCorrect`, `QuotaOvershoot`,
`BatchesAreAtomic`, `ArchivesStayFrozen`). The overshoot is bounded because the
files that are there, and those whose check was passed but whose rename is to come,
together number at most the quota and one for each other batch (`ClaimsInv`): a
check that is passed saw the total without the file, and only the checks of the
other batches can be outstanding then. A batch that was alone in its commit still
has the room it measured (`AloneInv`).

**`MetaRebuild`**, in `ResourceFilesProofs` (`MetaTypeCorrect`, `MetadataIsItsOwn`,
`SlotsAreHandedOn`). `ServesOwn` speaks of a resource whose rebuilds have ended, so
the invariant has to follow the ones in progress (`SourcesInv`), for metadata and
for hashes apart: metadata of another plugin has a task to come that will replace
it, or a rebuild in progress that will, and the plugin of the resource provides
some. Whether that one writes depends on the row it read when it began; hashes may
be written by a page in place of the task that was left out, and the rows of a
rebuild that has hashed and not yet said so must be its own (`Passed`). A rebuild of
an earlier plugin is overtaken, or followed by a task that writes what it wrote
(`OldInv`), and one rebuild at most hashes a resource (`HashInv`). Slots need that
whoever waits finds all of them held, by tasks that run or were handed one
(`SlotsHeld`).

What stays with TLC: the liveness properties (`CallsSettle`, `DrainEnds`,
`CreationEnds`, `AcceptedRuns`, `RestoreSettles`, `SwapEnds`, `ReloadEnds`,
`ParkedGoesOn`, `EnqueuedBegins`, `BatchesEnd`), because they rest on fairness and
so on ENABLED, which the prover does not support; and the violation of section 5.

## 5. Where the code differs from what one would expect

One run is expected to fail, and TLC prints the trace.

**A swap recovers to two releases** (`swap_overlap`). The marker is written
before the backup of the previous update is removed, entry by entry. An exit in
between leaves marker and backup, and the next start rolls the payload back to
what is left of a release before the last
(`apps/desktop/src/main/resources-swap.ts:64`); the header says every
intermediate state is recoverable. `resource_swap` keeps swaps over a backup
apart with the history variable `overlapped`.

The modules define further properties that the code does not have. They are part
of no run; added to the configuration of the module, each yields a trace. Where a
checked property has an exception, it is one of these.

| Property | What happens instead |
|---|---|
| `PluginInstall!VaultSurvivesUpdates` | a download that commits between the copy of the vault and the exchange of the trees is lost (`install-transaction.ts:98`) |
| `PluginInstall!UninstalledStaysAway` | a transaction whose cleanup failed stays registered, and the next boot brings an uninstalled plugin back (`plugin/service.ts:472`) |
| `VersionPublication!OldVersionsAreFrozen` | if `rm(work)` fails after it removed `pending.json`, an archive is reported as failed, and file commits go on into it (`publish-version.ts:156`) |
| `VersionPublication!MetaIsItsOwn` | a creation that waited for an interrupted one overwrites the metadata of the archive that one made (`version/service.ts:166`) |
| `JobManager!SettledStays` | a job that is cancelled while its last record is being written becomes "cancelling" until a restart (`jobs.ts:204`) |
| `JobManager!NothingAfterClose` | a job that was being accepted runs after `close` returned (`jobs.ts:180`) |
| `LibraryRestore!ReplacesTheLibrary` | a restore clears plugin transactions only: a publication that failed before is replayed on the restored library (`protection/plugin.ts:85`) |
| `StorageReload!ClosedUnderNoClient` | a restore that enters maintenance looks at the count of requests and closes the database three awaits later: a selection that ends in between lets its parked requests go on, and the database is closed under them (`protection/plugin.ts:83`) |
| `StorageReload!ClosedUnderNobody` | a handler whose client went away is no longer counted and runs on while the database is closed (`server.ts:755`) |
| `MetaRebuild!SkippedIsSame` | a hash rebuild of the detail page that began before the plugin was replaced keeps the new one from hashing, and writes the rows of the old plugin (`meta-ops.ts:413`; the comment at line 176 says both produce the same) |
| `MetaRebuild!ServesOnlyOwn` | a rebuild in progress when the plugin is replaced writes the old plugin's metadata after the row was cleared, and the rebuild that follows leaves it if the new plugin provides none (`meta-ops.ts:383`, `host/src/hooks.ts:342`) |
| `MetaRebuild!SlotsKept` | a slot that was handed to a waiting task counts as free until that one runs: another may take it, and one task more than there are slots is running (`concurrency-limiter.ts:27`) |
| `PluginVault!QuotaKept` | two batches measure the vault before either commits, and exceed the quota together (`asset-service.ts:324`) |
| `PluginVault!NothingStaged` | the file whose fetch or pin failed stays in the staging directory, which no boot empties (`asset-service.ts:278` says every one is discarded) |
| `ResourceSwap!OldStays` | the soak timer of an update drops the backup whichever update it belongs to by then, also that of one that stopped between its renames (`resource-updater.ts:225`) |
| `ResourceSwap!NoDowngrade` | a server that migrated the library and then failed is rolled back to one that is older than the library (`resource-updater.ts:217`) |
| `ResourceFiles!StagedIsLeft` | staged files are renamed into the folder, and go with it when a later file or an import stage fails (`commit.ts:42` says they are left in place) |
| `ResourceFiles!ListsAreWhole` | a listing that read a folder being filled is kept for good if it ran on while the cache was cleared, or if the cache could not be removed, an error that is ignored (`files.ts:245`, `res/service.ts:864`; `files.ts:97` says the cache never needs another invalidation) |
| `ResourceFiles!RestoredStays` | a resource taken out of the trash while its hard deletion moves the folder is deleted all the same (`res/service.ts:750`) |

Others are visible in the models without a property of their own:

* *Plugins*: a rescan during an uninstall, or between the two renames of an
  installation, seeds the bundled original into the place (`Seeded`); a crash
  between the removal of the directory and its record lets the next boot seed it;
  a transaction whose cleanup failed, and an archive created since, make every
  boot fail (`RecoverRefuses`).
* *Jobs*: a cancellation whose record cannot be written does not abort the job, one
  asked for again may (`AbortedAfter`); `close` throws when the last write of any record failed
  (`CloseEnds`).
* *Restore*: one that fails before it touched the library leaves its journal,
  and the library stays closed until a restore completes. Two calls may both
  find no restore in progress; the journal's id refuses one of them later. A
  retention may delete a point whose restore was just recorded, which then
  refuses and stays in maintenance.
* *Reload*: a request that waits for the root a second time during a drain is not
  aborted, and a client that goes away while its request is parked may never be
  counted out (`HeldUp`): either holds a drain up to its limit, which closes the
  library. A parked request does not look at maintenance again when it goes on.
* *Metadata*: a rebuild that was in progress at a replacement has the last word
  where no task that writes the same followed it ("defer", the cooldown, a plugin
  that provides none), and one of which a pass failed leaves what was there
  (`overtaken`, unit by unit); the rebuild of a detail page counts against no slot.
* *Resource files*: an error in making the folder leaves the row (`EnsureFolder`
  is outside the `try`); one while the folder is set aside leaves the aside; a
  cover that is written while the creation is undone leaves a folder of no row; a
  crash leaves a row with some of its files.

## 6. What is abstracted

File contents, names and hashes (a tree is its origin and whether it is
complete), durability below the file system (a rename that returned has
happened), progress and results of jobs, the settings of plugins, and the upload
pipeline before an installation's commit. In `PluginInstall` the boot recovers
and seeds one plugin; in `VersionPublication` the drain of the reload is one step,
which `StorageReload` takes apart. In `JobManager` the load of records at start is
one step. In `LibraryRestore` there is one repository, and the engine's work is a
step that succeeds or leaves a mixed tree. In `StorageReload` the database is open
or closed. In `PluginVault` files have size one and a transfer is a step; in
`ResourceFiles` the creation is that of an ordered upload, an archive being one of
a single file, and the stages of the import that only touch rows are one step;
there is one token for the cover, so that a cover which `MoveDotfiles` carries over
from the aside replaces a newer one does not show. In `MetaRebuild` the unit `meta`
is one field of plugin metadata: the two are written alike, but that a `searchMeta`
hook which is there and answers nothing writes null, and what is missing of one has
a page rebuild both; and a resource is not replaced again while the
replacement before is clearing it. In `ResourceSwap` a server that comes up is healthy or not, whatever the reason.

Not modelled: drills, comparisons and the schedule of protection; covers, file
statistics and resources without a plugin in `MetaRebuild`; resources of an older
version, the list of the trash and folder imports in `ResourceFiles`; the cache of
directory listings for covers (`files.ts:130`), which is invalidated before a
cover is written and may keep what it read in between. For whole components see
`PROJECT.json`.

## 7. Plan

Done so far: the modules above, in the order of section 2, and the proofs of all
their safety properties. Next, in this order:

1. `ManagedProcess`: the supervision of backup processes and the lock of a
   repository, on which the jobs of the protection service rest, with the proof
   that two processes never hold one repository.
2. `PluginWorkers`: the remote calls between the server and the workers of the
   plugin sandbox, with their time limits and the restart of a worker.
3. `TagMerge`: merging and implied tags as operators, checked against a
   reference definition.
4. Proofs: the exceptions. `Orderly`, `overlapped`, `replayed` and `overtaken` each
   stand for a history of several steps; a theorem for each that says exactly which
   damage is possible once it happened would replace the exception by a promise.
