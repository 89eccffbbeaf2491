# Formal verification of linux-charcoal-vulcano

This directory holds TLA+ models of the programs of this repository that keep
state somebody depends on, the TLC configurations that model-check them on
small instances, and TLAPS proofs of their main properties for instances of any
size. Paths are relative to the root of the repository.

The repository builds and installs the Charcoal kernel for SteamOS. Its own
logic is not the kernel but the programs around it: those that run on the
user's machine as root and change swap, packages and learned cpuidle weights,
and those that run in the build and decide which patches, tools and workflow
runs to keep. What they share is that they are sequences of external calls, each
of which may fail or be interrupted, over state that outlives the program.

## Components

| component | state it keeps | operations | interacts with | hard behaviour | what makes it correct |
|---|---|---|---|---|---|
| `configure-gaming-swap` | swap files and their signatures, `/etc/fstab`, unit files and masks, modprobe/tmpfiles/kernel command line, `/proc/swaps` | `install()`: inventory, prepare, swapon, drain, persist, delete, runtime | called by `install-charcoal.sh` and the package hook `gaming-swap.install`; `gaming-zswap.service` runs `--runtime` at boot | failure or power loss at any call; somebody's swapon; another amount of RAM; repeated runs | the replacement works before anything is taken away; every boot has swap; nothing but retired swap is deleted; running it again completes |
| `nap-tools/napctl` | `/var/lib/nap/state`, `state.prev`, the kernel's weights and CPU selector | `save`, `restore`, `reset` (and `export`, `import`, `average`, `info`) | timer, boot and shutdown services, the administrator | shared selector, CPU hotplug, crash between renames, damage, death with the lock | no CPU gets the weights of another; a completed save survives; restore uses what is usable |
| nap units (`nap-state.service`, `nap-state-save.*`, `configure-services`) | enablement and state of the units | boot, timer, shutdown, package install/remove | `napctl`, systemd, pacman scriptlets | order of restore and first save; removal and reinstallation in one upgrade | a restart never loads what is older than what the kernel has learned |
| `install-charcoal.sh` | installed packages, pacman cache, bootloader, read-only mode | download, verify, select, remove, install, configure, update bootloader, roll back, clean up | pacman, SteamOS tools, `configure-gaming-swap` | every step may fail, be interrupted or lose power; the root has no kernel between remove and install | success means complete; failure restores or warns; the cleanup restores read-only mode |
| `automation/recover-actions-runs.py` | workflow runs on the server | list, gate, cancel, force-cancel, poll, delete | GitHub API; the runs themselves | runs progress by themselves; answers are lost and calls retried; data is stale when used | only stale or obsolete runs are deleted; what stays is reported |
| release workflows (`push.yml`, `record-kernel-build-status.yml`, ...) | releases, tags, `last-build-status.json` | build, publish, read back, record | GitHub; other runs | concurrent runs that finish in any order | what is published is what was verified; the status is that of the last build |
| patch resolution (`resolve-latest-patches*.py`), validation, audit, application | `patches/`, the lock file | resolve, write, validate, audit, apply | upstream servers; the kernel tree | stale mirrors, fallbacks, several programs that must agree on one rule | the newest applicable candidate; resolver, validator and audit agree |
| `nap-tools/refresh-tools.py` | `output` directory of vendored tools | download, verify, stage, swap in | upstream server | failure between two renames | the directory is always one complete set |
| source preparation, ports and fixes (`prepare-*.py`, `port-*.py`, `fix-*.py`) | source files of one build | substitute text once | the compiler | none: one shot, alone | judged by the compiler |
| package build, configuration, patches, viewer | none of their own | | | | |

## Modules

| | module | models | extends / instantiates | proofs |
|---|---|---|---|---|
| 1 | `GamingSwap` | the swap migration | | `GamingSwapProofs` |
| | `GamingSwapRetry` | the same when failures stop | `GamingSwap` | `GamingSwapProofs` |
| | `GamingSwapOrphan` | the same with a history of what runs have identified | `GamingSwap` | |
| 2 | `SnapshotStore` | what a restore may rely on | | |
| | `NapCtl`, `MCNapCtl` | the weights store | instantiates `SnapshotStore` | `NapCtlProofs` |
| 3 | `Installer` | the package transaction | | `InstallerProofs` |
| | `InstallerRetry` | the same when failures stop | `Installer` | `InstallerProofs` |
| 4 | `RecoverRuns` | one recovery pass | | `RecoverRunsProofs` |
| 5 | `PatchPolicy` | which upstream file a component resolves to, which record is accepted, what is done with it: operators without state | | `PatchPolicyProofs` |
| | `PatchLock`, `MCPatchLock` | resolver, validator, audit and applicator over one component, while upstream and the repository change | `PatchPolicy` | `PatchLockProofs` |
| 6 | `KernelSource` | which kernel is built: operators without state | `PatchPolicy` | |
| | `BuildInputs`, `MCBuildInputs` | the build job, file by file, over all components | `KernelSource` | `BuildInputsProofs` |
| 7 | `NapTools`, `MCNapTools` | download, adaptation and packaging of the Nap tools | | `NapToolsProofs` |
| 8 | `NapServices` | systemd units and package scripts | | |

How they compose: `PatchLock` looks at one component in full detail and
`BuildInputs` at many with the choice of a file abstracted; both use the
operators of `PatchPolicy`, so that a rule is stated once. `NapServices` takes
one command of `NapCtl` as one step, and `Installer` one migration of
`GamingSwap` as one command.

### GamingSwap

One action is one call of `Migration.install()` that changes state, in the order
of the code; `pc` names the next one. `sig` and `size` are the files,
`fstab`/`sunits`/`masked`/`policy` what the next boot will read,
`active`/`loaded`/`zswap` the running system, the other variables the locals of
the run. Variables of the run are reset after their last use, which changes no
behaviour and keeps the state space small.

`Fail` is an exception from any call (the handler removes the file being
created), `Kill` an end without handlers, `Reboot` a loss of power after which
memory may have been changed, `Reactivate` a `swapon` by somebody else.
`Inventory` may see one unit of a managed file with stale metadata (its
`What=` names another file), the case the code's exclusion by canonical name
exists for.

Abstracted: the text of the GRUB and kernel command lines (one step), zswap's
parameters, permissions, the Btrfs subvolume. Someone else's `swapoff` is not
modelled, and `systemctl stop` of a unit works when it returns. That the kernel
refuses to unlink an active swap file is assumed.

`GamingSwapOrphan` adds `identified`: the files that the inventory of some run found
in fstab or by their unit.

### NapCtl and SnapshotStore

`weights[c]` is whose weights CPU `c` uses, which tells apart everything the
properties speak of: its own, the mean of a snapshot, or none. `selected` is the
selector file all processes share. `dir` holds the two snapshot files;
`crashDirs` is the set of directories a crash may leave: renames reach the disk
in their order, the `fsync` of the directory makes the set a singleton. `Die` is
any failure or kill: the kernel then releases the lock. `LoadRejected` is the
kernel refusing a record. `Damage` makes one file unreadable, once.

`SnapshotStore` is what whoever restores relies on: a snapshot that changes in one
step, never goes back while the system runs, and that a crash sets back no further
than the last completed save. `NapCtl!Store` is the refinement mapping: the
visible snapshot is the one a restore would try first.

### Installer

`pc` names the next command of `main()`, of `attempt_rollback()` (`rollback`,
`restore`, `restoreMenu`) or the trap on EXIT (`cleanup`). `installed` and
`cached` are pacman's, by version: `old` is what was there, `new` what the
release contains, `upgraded` what another pacman brought. `pacman -U` of a local
file does not fill the cache, so `new` is never cached. `menu` is what grub.cfg
lists; Charcoal gives its boot image the stock kernel's name (`PKGBUILD:345`), so
both are the image `series`, and the kernel declares a conflict with the stock
kernel (`PKGBUILD:332`). `outcome` is what the run said last and `endedAt` where
it ended.

`torn` are the packages some of whose files are missing, or there without being
registered (`Strays`); `locked` is `/var/lib/pacman/db.lck`, left by a pacman that
no longer runs.

`Fail`, `InstallFails` and `RestoreFails` are a command that ends without success
and may have done its work in part (`Broken`): a pacman transaction may have
dealt with any subset of its packages, and have registered one it could not
extract. `Refuse` is a command that cannot succeed: pacman refuses a locked
database, a target of `-Rdd` that is not installed, and with `-U` a conflict or a
file no package owns (`Accepted`). `Interrupt` is a signal: the trap runs, and
pacman finishes its package and removes its lock. `Kill` is a SIGKILL or a loss of
power: the trap does not run. If it hits pacman too (`CutShort`), its lock stays, and
the package it was at may be torn: when removed it is registered longer than its
files are there, when installed its files are there before it is registered.
`Repair` is somebody who removes lock and files by hand; no program of the
repository does. What a finished command wrote is taken to be on disk.
`OtherPacman` changes stock packages until the removal.

Abstracted: fetching and verifying the release is one step, as it changes nothing
on the machine; developer mode is a command without state; that
`/usr/lib/gaming-swap/configure` may be left halfway is `GamingSwap`'s matter, here
it has completed or not. Of other pacman transactions only those on stock packages
before the removal are modelled: pacman's lock keeps them out of the script's own
transactions, but between two of these they are possible.

### RecoverRuns

`pc` names the next request of `recover_run()` for the current run. A run is
`active` (any of `ACTIVE_STATUSES`), `completed` or `gone`. A request that
`request()` repeats has its effect zero or more times, and its answer is not
looked at, so a cancellation is only noted (`touched`) and the run may complete
then or later (`Complete`); a deletion is refused for an active run. A poll sees
the status or fails. `Complete`, `Rerun` and `Remove` are the runs, users and
other passes: the workflow has no concurrency group. `Listed` are the runs on the
ten pages the script reads; an older run is only found when it is named. Ages do
not change during a pass (`now` is taken once), so `Old` is a constant; a run that
is started again keeps its creation time. `Abort` is an exception that `request()`
does not catch, or the workflow's time limit. `rests` and `restarted` are history.

The runs are taken in any order, where the code sorts them.

### PatchPolicy and PatchLock

`PatchPolicy` has the rule that four programs state, each in its own code:
`resolve-latest-patches.py` with the functions that
`resolve-latest-patches-7.2.py` puts in their place (`policy` "base" and
"stable"), `validate-patch-lock.py`, `audit-latest-patch-versions.py` and
`apply-resolved-patch.py`. A version is the record its string parses to, since
1.3 and 1.3.0 differ as strings and are equal as keys; a path is its rank among
the paths; bytes stand for themselves and for their SHA-256, and `Junk` for
anything that does not look like a patch.

`PatchLock` runs them. `tree` and `urls` are what the servers answer, and change
at any time (`Publish`, `Serve`); `Review` is a commit to the repository that
renews a local port and its pins; `lock` and `disk` are the record in the lock and
the file of the patch. The resolver writes them one after the other: `WriteTarget`
selects, looks at the bytes and writes the file (`resolve-latest-patches-7.2.py:282`),
`WriteLock` writes the lock after the targets of all components and the PKGBUILD
(292), and with the 7.2 entry point that lock has schema 3 until
`NormalizeSchema5Lock` rewrites it (`resolve-latest-patches-7.2-policy.py:130`).
`ResolverStops` is everything that can end it in between: another component it
refuses (268), the PKGBUILD (284-286), a kill, which may also cut short the file
being written. So an old lock may stand beside new bytes, and there may be no lock
that can be read. `Validate` is the validator with the audit it runs
(`validate-patch-lock.py:339`); it takes schema 5 only and does not look at the
target files. `Apply` is the applicator, which no workflow obliges to run after a
validation and which takes a lock of either schema (`LockKernel`); that it compares
the file with the digest in the lock is what keeps files of two resolutions apart.
What a patch fits, and whether the tree has the change already, is asked of the
input (`fits`, `integrated`). The resolver reads nothing of upstream between its
first and its last write, so upstream changes and programs run before the first or
after the last.

Abstracted: overlays of a local port and the informative
`compatibility_reference`, which no decision reads; the text that the adapters
for `poc_selector` and the LRU context rewrite; the adapter of the entry point
for `cpu-optimizations` (108-196), which completes a patch.

### KernelSource and BuildInputs

`KernelSource` has how an image, a package, a tag and a policy follow from one
another. `BuildInputs` is the job: `pc` is the step, `ws` the files of the
workspace (PKGBUILD, config, the logs that steps read from one another, driver
lock, patch files, patch lock, sums), `job` what the running script has in
memory, `world` what Valve and the projects answer. `channel` is the workflow:
`push.yml` builds for the stable image, `build-kernel-7.2.yml` from the source
index. A script reads every driver, and every repository, in a request of its own,
and `Push`, `ReleaseImage`, `Archive` and `Mirror` may come between any two.
`Validate` and `Audit` read all repositories again; the workflow runs the audit
twice. `Fail` is a request that fails for good or a kill; writing the PKGBUILD
is `write_text`, so a kill may leave it `Torn`, and the scripts that look for
their patterns in it then refuse. `Rerun(FALSE)` is somebody who runs the scripts
again in the same directory; `Rerun(TRUE)` has a fresh checkout. A `Fail` passes;
`Refusal` does not: a step refuses what it finds, and `Faults` are the refusals that
depend on more than the model knows. They name a step, a kernel tag and revisions:
no compatible file or an outdated port in the resolver (`select`), bytes that are no
patch (`patches`), a record the lock policy does not admit (`validate`), another
choice of the audit (`audit`), patches and drivers that do not apply or compile
(`build`). Every job that meets them is refused again.

Abstracted: which file of a revision is selected (`PatchPolicy`), the pins of local
ports (`PatchLock`), the text that `prepare-pkgbuild-7.2.py` puts into
`prepare()`, the compilation. Other files that a kill may tear are written again by
the next job before they are read. `ws.config` and the logs stand for the package
they were taken from.

### NapTools

`upstream` is the history of the branch, and a commit its position in it;
`output`, `stage` and `previous` are the three directories of `refresh()`, each with
the commit it came from, what was done to its files, the hunk headers of its
patch and its manifest. `Adapted` and `Rebase` are
`reviewed_integration_patch()` and `normalize_napctl_hunk_offsets()`: for
napctl 0.6.5 each hunk is moved to the one place where its context is found.
`RequestFails` is one of the four attempts of `run()`. `Fail` is an exception:
when the second rename raises an `OSError`, the first is undone. `Die` is a kill, or
Ctrl-C, which is no `OSError`, or a rename back that fails too. `Repackage` is
`package()` without `prepare()`, `Edit` somebody who changes a file between them.

### NapServices

Installation, upgrade, removal, `systemctl disable --now`, the timer, boot and
shutdown, each a step of the systemd semantics the unit files ask for
(`RemainAfterExit`, `ConditionPathExists`, `ExecStop`). What has been learned is
a number that grows.

### Retry modules

What "failures stop" means cannot be said with the actions alone: a `Kill` that
changes nothing but `pc` is the same step as a regular end of the script, so
`<>[][~Disturbance]_vars` would also forbid regular steps. `GamingSwapRetry` and
`InstallerRetry` therefore have a variable `calm`, which becomes true at some time
or never and disables the disturbances. It does so between two runs, which is no
loss: a run from whose middle on nothing fails ends, and `calm` may come then. The
safety properties are checked in the same runs. In `BuildInputs` and `NapTools`
failures are bounded in number instead, so that they stop by themselves.

## Runs

| run | module, cfg | bounds | what it shows |
|---|---|---|---|
| `swap_resize` | GamingSwap, GamingSwapResize | one old file, two sizes of RAM | any number of migrations with the RAM changing between them: `ReplacementFirst`, `NextBootReady`, `OldFilesGone`, `BootKeepsSwap` |
| `swap_places` | GamingSwapRetry, GamingSwapRetry | a scanned and an unknown place, one size | `OldFilesGone`, `DeletesOnlyRetiredSwap`, `Converges` |
| `swap_orphan` | GamingSwapOrphan, GamingSwapOrphan | an unknown place, one size | violated: a file that a run identified by fstab is forgotten after a loss of power |
| `nap_save` | MCNapCtl, NapCtlSave | two CPUs, two processes, two snapshots | `RecordsFiledRight`, `CrashKeepsLastSave`, `StoreSpec` |
| `nap_restore` | MCNapCtl, NapCtlRestore | one CPU, two processes, two signatures, three snapshots | `GivesUpOnlyWithoutSnapshot`, `DamageTolerated`, `LockReleased` |
| `installer` | InstallerRetry, InstallerRetry | kernel and headers, a Charcoal kernel of another series, a stock kernel; two package caches, one without the headers | any number of runs: `RestoredMeansPrevious`, `UnbootableExitWarns`, `SuccessMeansComplete`, `ConsentedRemovals`, `Recovers` |
| `recover_runs` | RecoverRuns, RecoverRuns | own run, a named one, an old and a young one; two polls | `ZeroMeansRecovered`, `OnlyStaleTouched`, `PassEnds` |
| `recover_healthy` | RecoverRuns, RecoverRunsHealthy | | violated: a run just started again is cancelled |
| `patch_lock` | MCPatchLock, PatchLock | four families of files, eight components, two kernels | the programs agree and stay right while upstream and the reviewed port change and the resolver stops between two files: `AcceptsNewestNativeFirst`, `AppliedPortIsReviewed`, `ApplicatorAgrees`, `AuditAgreesOnSeries` |
| `build_inputs` | MCBuildInputs, BuildInputs | three components of two repositories, a driver, two images, five lasting refusals, one push, one failure | any number of jobs in one workspace or fresh ones: `BuiltAsLocked`, `OneCommitPerRepository`, `OneInstant`, `EndsFresh` |
| `nap_tools` | MCNapTools, NapTools | several kinds of upstream commit, two hunks, one push, one failure | any number of builds: `OutputWhole`, `PackagedAsResolved`, `LastSnapshotKept`, `BuildEnds` |
| `nap_services` | NapServices, NapServices | three steps of learning | violated: an upgrade loads an older snapshot over what was learned |

The type invariants are checked in `swap_resize`, `nap_save`, `installer`,
`recover_runs`, `patch_lock`, `build_inputs` and `nap_tools`. Deadlock is not
checked for `RecoverRuns`, as a pass ends, and for `PatchLock`, as a component whose
URLs answer nothing usable, applied once, has nothing more to do.

The bounds are enough because the programs treat files, CPUs and processes alike:
one file per kind of place, two CPUs to exchange weights, two processes to
contend, and two sizes to alternate between the two managed names, which is all
`prepare()` tells apart; one package per role in the installer, headers to
make a transaction that can be half done, and a cache with and one without a copy of
everything that can be removed, as any packages may be installed at first; one run per reason to be looked at, and
two polls, so that a first one can be followed by another and by the last.

In `patch_lock` the families have a release candidate, a release, the same
release written with another zero and an `r` revision of it, kernels on both
sides of the boundary between 6.19 and 7.0 and with a patch level, a family
without versions and one without kernels; the components declare a port, an
adapter, both kinds of scope, or nothing. Releases and kernels are only compared
with one another, and files of upstream come and go without any bound. In
`build_inputs` two components share a repository and one has its own, a second
image has another series and another serial, so that everything a job leaves
behind can be of another kernel; one push can fall between any two requests of a
job, one failure at any step, and each kind of lasting refusal meets one kernel and
revision, so that jobs of both kernels are refused before and after the push and
others succeed. A second push or failure would meet the job in the
same states, as each step reads the servers anew and a job never looks at
what happened to an earlier one but through the workspace. In `nap_tools` a push
separates what a refresh asked for from what is newest, and a failure hits the
first or the second of two builds.

Two snapshots fill `state` and `state.prev`; the third
makes one fall off the end. No other counter is bounded.

Fairness: `GamingSwapRetry!RetrySpec` lets a run take its next step and assumes the
migration is run again (the package hook runs on every upgrade, and SWAP.md asks
the user to run it again after a failure). `InstallerRetry!RetrySpec` does the same
for the installer, whose user starts it again; `Recovers` assumes that a program that
updates the bootloader exists, without which no run can succeed, and does not assume
that anybody repairs what a killed pacman left: while its lock or unregistered
files of the release are there (`Blocked`) the script may be refused for ever. Failures may go on
forever; `Converges` and `Recovers` speak of behaviours in which they stop.
`NapCtl!FairSpec` lets a process with the lock take its next step; nothing is
assumed of the start of commands or of the CPUs. `RecoverRuns!FairSpec` lets the
pass take its next step, as every request has a timeout; nothing is assumed of the
runs. In `BuildInputs` a job takes its next step; a job of the stable channel in a fresh
checkout comes again and again, whatever local jobs there are, as
`daily-full-kernel-build.yml` dispatches `push.yml` every day (strong fairness of
`Rerun(TRUE)`), while `build-kernel-7.2.yml` is only dispatched by hand: nothing is
assumed of the index channel, and `EndsFresh` says nothing about it; and Valve
publishes the source archive and the mirror tag of every image it releases, without
which the build rightly refuses. `EndsFresh` leaves one way out, `Rejected`: a
program refuses exactly the newest kernel with the newest patches and drivers. In
`NapTools` a build that was started takes its next step; nobody has to start
one, and no request has to be answered.

## Proofs

| theorem | property |
|---|---|
| `GamingSwapProofs!TypeCorrect` | `TypeOK` |
| `GamingSwapProofs!ReplacementActive` | `ReplacementFirst` |
| `GamingSwapProofs!NextBootPrepared` | `NextBootReady` |
| `GamingSwapProofs!DeletionSafe` | `DeletesOnlyRetiredSwap` |
| `GamingSwapProofs!OldSwapDeleted` | `OldFilesGone` |
| `GamingSwapProofs!BootSwapKept` | `BootKeepsSwap` |
| `GamingSwapProofs!RetryIsMigration` | `RetrySpec => Spec` |
| `GamingSwapProofs!CalmRunEnds` | once calm, no call is refused and each brings the run nearer to its end |
| `NapCtlProofs!TypeCorrect` | `TypeOK` |
| `NapCtlProofs!RecordsRight` | `RecordsFiledRight` |
| `NapCtlProofs!CrashSafe` | `CrashKeepsLastSave` |
| `NapCtlProofs!BothFilesTried` | `GivesUpOnlyWithoutSnapshot` |
| `NapCtlProofs!DamageContained` | `DamageTolerated` |
| `NapCtlProofs!CommandsEnd` | each step of the holder of the lock brings it nearer to its end |
| `NapCtlProofs!FilesImplementStore` | `Spec /\ ~MayDamage => StoreSpec` |
| `InstallerProofs!TypeCorrect` | `TypeOK` |
| `InstallerProofs!RestoredTruthful` | `RestoredMeansPrevious` |
| `InstallerProofs!UnbootableTold` | `UnbootableExitWarns` |
| `InstallerProofs!SuccessTruthful` | `SuccessMeansComplete` |
| `InstallerProofs!RemovalsConsented` | `ConsentedRemovals` |
| `InstallerProofs!RetryIsInstaller` | `RetrySpec => Spec` |
| `InstallerProofs!CalmRunSucceeds` | once calm, no command refuses unless `Blocked`, which stays as it is, and each brings the run nearer to success |
| `RecoverRunsProofs!TypeCorrect` | `TypeOK` |
| `RecoverRunsProofs!StaleOnly` | `OnlyStaleTouched` |
| `RecoverRunsProofs!ZeroTruthful` | `ZeroMeansRecovered` |
| `RecoverRunsProofs!PassFinite` | `[](StepsLeft \in Nat) /\ Approaches`: a pass is finite |
| `PatchPolicyProofs!NewestReleaseExists` | any candidates have a newest release |
| `PatchPolicyProofs!NearestMember` | variants that name kernels have a nearest one |
| `PatchPolicyProofs!SameNearest` | the nearest to a series is the nearest to a kernel of it |
| `PatchLockProofs!TypeCorrect` | `TypeOK` |
| `PatchLockProofs!PortsReviewed` | `AppliedPortIsReviewed` |
| `PatchLockProofs!ValidatorStrictEnough` | `ApplicatorAgrees` |
| `PatchLockProofs!AcceptedIsNewest` | `AcceptsNewestNativeFirst` |
| `PatchLockProofs!ResolverPassesAudit` | `AuditAgreesOnSeries`, if `NumbersApart` |
| `BuildInputsProofs!TypeCorrect` | `TypeOK` |
| `BuildInputsProofs!CommitsAgree` | `OneCommitPerRepository` |
| `BuildInputsProofs!NewestAtOnce` | `OneInstant` |
| `BuildInputsProofs!BuildsLocked` | `BuiltAsLocked` |
| `BuildInputsProofs!JobFinite` | `[](StepsLeft \in Nat) /\ Nearer`: a job is finite |
| `NapToolsProofs!TypeCorrect` | `TypeOK` |
| `NapToolsProofs!PackagesTruthful` | `PackagedAsResolved` |
| `NapToolsProofs!OutputsWhole` | `OutputWhole` |
| `NapToolsProofs!SnapshotKept` | `LastSnapshotKept` |
| `NapToolsProofs!BuildFinite` | `[](StepsLeft \in 0..17) /\ Nearer`: a build is finite |

They hold for any files, sizes, CPUs, processes, packages, runs, components,
repositories, hunks, number of saves or polls and history of upstream. Each module
names what it assumes of its constants:

* `GamingSwap!SizesAssumption`, `NamesAssumption`; `NapCtl!ConstantsAssumption`;
  `Installer!PackagesAssumption`; `NapTools!NapToolsAssumption`;
  `BuildInputs!BuildInputsAssumption`, `PatchLock!FilesAssumption`,
  `SpecsAssumption`: which names differ from one another, that bounds are numbers, and
  what a fault may name. `SpecsAssumption` also says that every local port is pinned,
  as in the manifests of this repository; `validate_manifest` does not require it of
  components taken from a tree.
* `RecoverRuns!RunsAssumption`: the command line names finitely many runs, and so do
  the ten pages it reads (`recover-actions-runs.py:92-111`).
* `GamingSwap!FinitenessAssumption`: the places where older swap files may be are
  finitely many, as the script lists them and reads finite files and directories, and
  so are the amounts of RAM a machine has room for. Only `CalmRunEnds` needs it.
* `NapCtl!CPUsAssumption`, `BuildInputs!DriversAssumption`: a machine has finitely many
  CPUs, and `resolve-controller-drivers.py:21-25` names three repositories.
* `BuildInputs!PackagesAssumption`: what the parsers let into a version is a number,
  and a package list is finite.
* `PatchLock!HistoryAssumption`: a repository holds finitely many files, and the
  history of a family is that of its versions.
* `PatchLock!KernelsAssumption`, `PathsAssumption`: a kernel has two or three numbers
  (`parse_kernel_version`, `resolve-latest-patches.py:123`), and in the families
  without versions the kernel is the directory a path begins with
  (`filename_regexes` in `patch-sources.json:178-232`).

One theorem has a hypothesis of its own. `NumbersApart` says that the patch level of
the kernel is below 500 and that no file names a minor number from 1000 on:
`kernel_ordinal` (`resolve-latest-patches-7.2-policy.py:33`) writes the three numbers
of a version side by side with three digits each, so a patch level from 500 on would
be nearer to the next series than to its own.

GamingSwap. `ReplacementFirst` alone is not inductive: a unit that is stopped
while the old units are retired might be the target's. The inductive invariant
adds that `target` is the managed name chosen for the present RAM (`Chosen`),
that no unit still to retire is the target's (`TargetSpared`), that the files to
delete are off fstab and are swap (`Retired`), that the target's line is in fstab
from then on (`FstabUsable`), and which parts of the policy each `pc` has behind
it (`Persisted`).

NapCtl. The strengthening says that only the holder of the lock is not idle
(`LockHeld`), that it reads and writes the CPU it selected (`Selected`), that the
temporary file is newer than every other and synced (`NewSnapshot`), and which
combinations of `dir` and `crashDirs` each step of the renames leaves
(`OldFiles`, `Renames`, `Bounded`). `DamageTolerated` needs what remains once a file
was damaged: `AfterDamage`, that every directory a crash may leave has a usable file,
but for those in which a save has renamed the damaged file over the other. A crash
may undo renames only to a directory in which the first usable file is no older than
the last completed save, whose number `SyncDir` raises only after its rename is on
disk.

Installer. The strengthening says that nothing of a run is left when none is in
progress (`Fresh`), that what is staged for a rollback comes from the cache, which
never holds the release (`StagedOld`), that a package of the release which is
installed is on the list of what is to be removed, so that none is left when the
release is installed (`NewListed`), what each `pc` of the transaction has
achieved (`Achieved`), and that from the removal on a kernel of the boot menu is
installed or among the packages to restore (`MenuKernel`).

RecoverRuns. A run with requests is stale and not the own one (`Gated`); what is
not active has been at rest (`RestsNoted`); every run the pass is told of is still
to do, reported or has been at rest (`TakenUp`), and reported as settled only after
that (`ReportedAtRest`).

PatchLock. The strengthening says that the port in the repository is the one made
for the bytes the manifest pins, and that every local port is pinned (`Declared`);
and that the lock, and the record in the memory of a running resolver, are ones the
resolver makes and, if they are ports, made for the bytes of their source (`Locked`).
Nothing ties the lock to the target file once the resolver has stopped: a port comes
into the tree only if the applicator finds the digest of the lock (`ApplyInv`), and
the record then says what the file is. What the resolver can make is a chain of
lemmas from `FallbackForm` to `NormalizeForm`; which file it selects does not matter
to them.

It matters to the other two, and to `PatchPolicyProofs`. There Python's order of tuples
(`Less`, and `KeyLess` for tuples of tuples) is shown to be a strict total order on
sequences of any length, by a least position at which two of them differ. A finite set
then has a maximum (`GreatestKey`, by the cardinality of what is above a member), so
`max()` returns a candidate none is above, the variants that
`latest_project_candidates()` keeps are of one release, and the nearest variant exists.
`AcceptedIsNewest` adds that the key of a version follows the history of versions
(`HistoryAssumption`). For `ResolverPassesAudit` the resolver, asked for a series, and
the audit, asked for the exact kernel, must select the same file. Of native variants the
series decides (`SameNatives`). If there are none, each variant lies below or above the
series by a multiple of 1000, further than a patch level moves it (`OrdinalsBeyond`), and
of two at the same distance the one of the higher series also has the higher key
(`HigherSeries`); hence `SameNearest`. Then the record names what the audit
selects, for each way to make one (`DirectNames`, `AdaptiveNames`, `LocalNames`,
`NormalizeNames`).

BuildInputs. The strengthening says what each step has behind it: one package in
the config and the logs (`SourceHeld`), its tag in the PKGBUILD and the lock
(`TagHeld`), the drivers of the driver lock (`DriversHeld`), one commit for each
repository in the memory of the resolver (`TreesKept`) and then in the files and the
lock (`FilesHeld`). `OneInstant` goes by heads only moving on: what is locked is no
newer than the heads when the validation began, and what the audit reads is no older
(`InstantHeld`). The types need two facts that are not types: the servers hold finitely
many packages, and a head moves with a push only (`Served`), and the package a job has
located was published (`SourceKnown`), as it is a maximum of what was.

NapTools. The strengthening says what each step has made of the commit it fetched
(`Staged`), that `output` and `previous` are whole (`Outputs`), that `output` is the one
found at the start until the first rename and set aside between the two (`Kept`),
that a fetched commit is no older than the head at the start (`Fetched`), and what
`package()` finds (`Resolved`). That rebased hunks stay in order and apart is shown for
any number of hunks by a least counterexample.

GamingSwap, the other two. `OldFilesGone` and `BootKeepsSwap` need a second invariant
(`CoverInv`): systemd has loaded a unit for each file the next boot would use and for
each active one, and every old swap file is on the list of the run.

Ends. What a liveness property says apart from fairness, that each step brings its
program nearer to an end and nobody else takes it back, is an action property of a
measure, and proved:

* `PassFinite`: `StepsLeft` counts a bounded number of steps for each run still to take
  up, and for the current one those its phase leaves; no run, user or other pass raises
  it. With the fairness of `FairSpec` that is `PassEnds`.
* `BuildFinite`: a step for each `pc`, and three more for each of the two requests that
  may be repeated. With weak fairness of `Refresh \/ Package` that is `BuildEnds`.
* `JobFinite`: a step for each `pc`, and the turns of the loops over drivers, components
  and repositories, of which `TreesKept`, `FilesHeld` and `AuditHeld` know the place. That
  the build at the end is a fresh one (`EndsFresh`) is checked by TLC only.
* `CommandsEnd`: a command of napctl goes on to a later part, or to the next CPU of this
  one; the second file is tried once. Failures end it. With the fairness of `FairSpec`
  that is `LockReleased`.
* `CalmRunSucceeds`: a run in which nothing fails is on one path of 13 commands (`Way`),
  and what its program counter has behind it leaves no command a reason to refuse
  (`OnTheWay`), whatever earlier runs left: with the old kernels removed nothing
  conflicts with the release. The one thing left that may is `Blocked`, the lock and the
  files of a killed pacman, and no calm run removes it or brings it about. At the end of
  the run the installation is complete. With the fairness of `RetrySpec` that is
  `Recovers`.
* `CalmRunEnds`: once nobody else activates swap and no call fails, the active devices
  are those on the list of the run, and then only its own target (`Clear`); a managed
  file that is reused has the size in its name (`SizesHeld`). So no call is refused, and
  each goes on to a later part or takes something off the list of this one. With the
  fairness of `RetrySpec` that is `Converges`, whose `Blocked` is what keeps a run from
  taking its inventory at all.

`RetryIsMigration` and `RetryIsInstaller` say that these two are the same programs as
before, so that all theorems about `Spec` hold of them.

The inductive invariants and the measures were checked with TLC on the configurations
above. Every invariant and action property of the runs is proved. Only model-checked are
the liveness properties `Converges`, `LockReleased`, `Recovers`, `PassEnds`, `EndsFresh` and
`BuildEnds` themselves: liveness under fairness is out of the prover's reach.

## Disagreements between code and documentation

Each of these is a run that TLC ends with a counterexample:

* `swap_orphan`: a run identifies an old file by its fstab line, drains it and rewrites
  fstab without it (305-311); the machine loses power before the deletion (393-399).
  After the restart no fstab line, unit or active swap names the file, and where it is
  nobody scans: the next run ends successfully and the file stays, against
  `SWAP.md:14-19`, by which files identified so are deleted before the migration ends.
* `recover_healthy`: `recover-actions-runs.py:127` takes the age from the first
  creation, which a run started again keeps.
* `nap_services`: `systemctl start` (`configure-services:14`) runs `ExecStart` again
  when `nap-state.service` has failed or was stopped as `NAP-TOOLS.md:84` says, and
  restore then loads an older snapshot over what has been learned, against
  `NAP-TOOLS.md:52-53` and the comment at `configure-services:13`. The upgrade also
  enables again what the user disabled.

Others, visible in the models, without a run of their own:

* `configure-gaming-swap:249` looks for `swapfile` first and for `swapfile-<size>`
  only when `swapfile` has another size, so after a change of RAM a usable file is
  not reused (`SWAP.md:23-24`); `GamingSwap!ManagedName` follows the code.
* `napctl:295` reports that the built-in default stays (`NAP-TOOLS.md:50-51`) also
  after some CPUs were loaded.
* `install-charcoal.sh:362` sets the flag the trap looks at after the root has become
  writable (361): an interrupt in between leaves it writable (`README.md:19`).
* `recover-actions-runs.py:215` fetches a run again before the deletion, but looks
  only at its age and deletes one that has just completed (6-7, 215-219).
* `prepare-steamos-7.2.py:105-106` orders Valve's serials, but `package_rank` puts
  `valve3-2` above `valve3.1-1` (`KernelSource!PackageRank`), and
  `package_version_to_tag` turns a dotted serial into a tag with a dash, which no
  stable policy matches (`TagOf`): such a kernel is refused. No dotted serial has
  been published for the series so far.
* The audit says that it applies the resolver's policy (39-40), but selects for the
  exact kernel where the 7.2 resolver selects for the series and the base resolver
  measures distances number by number (214-233). `AuditAgreesOnSeries` says when the
  choices are the same; otherwise the audit refuses.
* `validate-patch-lock.py:238` refuses every HTTP record that is a local port,
  which the 7.2 entry point produces (57-116), and 269-281 cannot be reached.
* The applicator wants a SHA-256 pin for every local fallback (189-210), the validator
  accepts none for ports without versions.
* `preferred_kernel_tag` (`resolve-latest-patches-7.2.py:47`, 228) returns three values
  where two are expected when the manifest names no tag; no workflow reaches it.

Lower down: `apply-resolved-patch.py` reads the manifest of the repository and not the
prepared one, and the `prepare()` of the PKGBUILD does not call it;
`latest_base_release_candidates` and `wire_zen_07_72_port` have no caller; the
commit of the kernel in the lock is not checked again by the PKGBUILD, whose
sum for it is `SKIP`.

## Hazards without a property

PROJECT.json lists them with the reason.

* Two are defects described above (`install-charcoal.sh:361`,
  `recover-actions-runs.py:215`), whose windows are in the models and which therefore
  violate any property that would cover them.
* Five are what the code does and no document excludes: a timer save after a restore
  that could load nothing (exit status 0) replaces good snapshots; a save rotates a
  damaged `state` over `state.prev` (`DamageTolerated` states what remains true
  otherwise); a restore whose second file fails halfway leaves a mixture
  (`GivesUpOnlyWithoutSnapshot` says only that both are tried); an upgrade by another
  pacman between the copies for the rollback and the removal makes the rollback install
  an older version; and a stuck run beyond ten pages is found only when it is named.
* Two are concurrent runs of the release workflows, whose concurrency groups name the
  run, so that the run that ends last has the release called "latest" and the recorded
  status, in whatever order they were started.

## Assumptions

The head of a repository never returns to an earlier commit, and tags do not move.
Servers answer a request with one revision. A file written by one `write_text` is
whole unless the process was killed, and stays so when power is lost later. Pacman,
git, systemd and the kernel do what the programs rely on; where a program checks their
result, they may fail.

## Not modelled

* `port-*.py` and `fix-*.py`: each replaces text in one file, once, alone, and
  is judged by the compiler. `port-poc-selector.py` and the text adapters of the
  resolver and the applicator are of that kind; the models ask only whether
  they succeed.
* `normalize-diff-whitespace.py`, `make-archive.py`, release notes and reports:
  text and archives without state (the one check of the notes that can stop a
  build is part of `BuildInputs!Build`).
* Publication, read back and `last-build-status.json`: shell around the GitHub
  API, see above.
* `resolve_kernel_tag` of the base resolver (314-446): no workflow reaches it.
* The zram scripts: they write attributes in a fixed order at boot.
* Compilation, kernel configuration, patches, data and the viewer.

What is left to do: of `EndsFresh`, what is no matter of fairness: that a job of the
stable channel which nothing disturbs builds the newest, or meets a fault.
