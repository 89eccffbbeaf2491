------------------------------ MODULE Installer ------------------------------
(***************************************************************************)
(* install-charcoal.sh: replaces the kernel packages of a SteamOS machine  *)
(* by those of the latest release.                                         *)
(*                                                                         *)
(* The script downloads and verifies the release, asks twice, makes the    *)
(* root file system writable, removes the old kernel packages, installs    *)
(* the new ones, or else puts back the copies it found in the package      *)
(* cache, and updates swap and bootloader; a trap on EXIT makes the root   *)
(* read-only again.  Any command may fail, after having done part of its   *)
(* work, and so may the script be interrupted (the trap runs) or killed    *)
(* (it does not); another pacman may run while the script waits.           *)
(***************************************************************************)
EXTENDS FiniteSets

CONSTANTS
  New,        \* the two packages of the release: kernel and headers
  Other,      \* linux-charcoal-* packages of other series
  Stock,      \* linux-neptune-<series> and its headers, for the release's series
  Kernel,     \* the packages that hold a boot image
  Caches      \* sets of packages whose old version the package cache may hold at first

Name == New \cup Other \cup Stock

ASSUME PackagesAssumption ==
  /\ Kernel \subseteq Name
  /\ New \cap Other = {} /\ New \cap Stock = {} /\ Other \cap Stock = {}
  /\ New \cap Kernel # {}

VARIABLES
  installed,  \* version of each package in pacman's database
  torn,       \* packages of whose files some are missing, or there without being registered
  locked,     \* whether a pacman that was killed has left /var/lib/pacman/db.lck
  cached,     \* versions of each package in /var/cache/pacman/pkg
  menu,       \* boot images listed in grub.cfg
  grubTool,   \* whether a program that updates the bootloader exists
  readonly,   \* SteamOS read-only mode
  swapDone,   \* whether the swap migration has completed
  pc,         \* next command of the script
  remove,     \* remove_packages
  staged,     \* versions copied to $WORKDIR/rollback
  ready,      \* ROLLBACK_READY
  writable,   \* MADE_ROOT_WRITABLE
  outcome,    \* what the last run of the script told the user
  endedAt,    \* the command at which it ended
  before      \* whether the machine was bootable and read-only when it started

packages == <<installed, torn, locked>>
machine == <<packages, cached, menu, grubTool, readonly, swapDone>>
script  == <<pc, remove, staged, ready, writable, outcome, endedAt, before>>
vars    == <<machine, script>>

Version == {"none", "old", "upgraded", "new"}

Outcome == {"none", "success", "cancelled", "restored", "doNotReboot", "error",
            "readonlyWarning", "interrupted", "killed"}

PC == {"idle", "download", "select", "confirmStock", "capture", "confirm", "disable",
       "flag", "devmode", "remove", "install", "rollback", "restore", "restoreMenu",
       "configure", "menu", "cleanup"}

-----------------------------------------------------------------------------
(* Packages and boot images.                                               *)

Present(v, n) == v[n] # "none"

NotStaged == [n \in Name |-> "none"]

Release == [n \in Name |-> "new"]

(* The installed versions after the packages S got the versions v.         *)
After(S, v) == [n \in Name |-> IF n \in S THEN v[n] ELSE installed[n]]

(* The Charcoal kernel declares a conflict with the stock kernel.          *)
Conflict(v) ==
  /\ \E k \in New \cap Kernel : Present(v, k)
  /\ \E k \in Stock \cap Kernel : Present(v, k)

(* Charcoal names its boot image like the stock kernel of its series.      *)
Image(k) == IF k \in Other THEN k ELSE "series"

Images(S) == {Image(k) : k \in Kernel \cap S}

Registered == {n \in Name : Present(installed, n)}

Intact == Registered \ torn

Strays == torn \ Registered

Bootable == menu \cap Images(Intact) # {}

(* What grub-mkconfig may list: the image of a torn kernel is there or not. *)
Menus == {Images(Intact \cup S) : S \in SUBSET torn}

(* pacman -U takes on the packages S in versions v: the database is not    *)
(* locked, no file that it does not know is in their place and, with       *)
(* --noconfirm, it refuses a conflict.                                     *)
Accepted(S, v) == ~locked /\ S \cap Strays = {} /\ ~Conflict(After(S, v))

TypeOK ==
  /\ installed \in [Name -> Version]
  /\ torn \subseteq Name /\ locked \in BOOLEAN
  /\ cached \in [Name -> SUBSET Version]
  /\ menu \subseteq Other \cup {"series"}
  /\ grubTool \in BOOLEAN /\ readonly \in BOOLEAN
  /\ swapDone \in BOOLEAN
  /\ pc \in PC /\ endedAt \in PC
  /\ remove \subseteq Name
  /\ staged \in [Name -> Version]
  /\ \A n \in Name : staged[n] # "none" => staged[n] \in cached[n]
  /\ ready \in BOOLEAN /\ writable \in BOOLEAN
  /\ outcome \in Outcome
  /\ before \in [bootable : BOOLEAN, readonly : BOOLEAN]

Unknown == [bootable |-> FALSE, readonly |-> FALSE]

Init ==
  /\ installed \in [Name -> {"none", "old"}] /\ ~Conflict(installed)
  /\ torn = {} /\ locked = FALSE
  /\ \E C \in Caches : cached = [n \in Name |-> IF n \in C THEN {"old"} ELSE {}]
  /\ menu = Images(Registered)
  /\ grubTool \in BOOLEAN
  /\ readonly = TRUE
  /\ swapDone = FALSE
  /\ pc = "idle" /\ remove = {} /\ staged = NotStaged /\ ready = FALSE
  /\ writable = FALSE /\ outcome = "none" /\ endedAt = "idle"
  /\ before = Unknown

Goto(l) == pc' = l /\ UNCHANGED <<outcome, endedAt>>

(* The script ends: the trap on EXIT is what is left to run.               *)
Stop(o) == pc' = "cleanup" /\ outcome' = o /\ endedAt' = pc

-----------------------------------------------------------------------------
(* Up to the confirmation: nothing is changed.                             *)

Start ==
  /\ pc = "idle"
  /\ pc' = "download"
  /\ outcome' = "none" /\ endedAt' = "idle"
  /\ before' = [bootable |-> Bootable, readonly |-> readonly]
  /\ UNCHANGED <<machine, remove, staged, ready, writable>>

(* The release is fetched, its checksums, contents and names are verified. *)
Download ==
  /\ pc = "download"
  /\ Goto("select")
  /\ UNCHANGED <<machine, remove, staged, ready, writable, before>>

(* Mutant: the stock packages are not selected.                            *)
SelectCharcoal ==
  /\ pc = "select"
  /\ remove' = {n \in New \cup Other : Present(installed, n)}
  /\ Goto("confirmStock")
  /\ UNCHANGED <<machine, staged, ready, writable, before>>

Select ==
  /\ pc = "select"
  /\ remove' = {n \in Name : Present(installed, n)}
  /\ Goto("confirmStock")
  /\ UNCHANGED <<machine, staged, ready, writable, before>>

ConfirmStock ==
  /\ pc = "confirmStock"
  /\ Goto("capture")
  /\ UNCHANGED <<machine, remove, staged, ready, writable, before>>

(* Mutant: a package that is not in the cache does not count as missing.   *)
CapturePartly ==
  /\ pc = "capture"
  /\ staged' = [n \in Name |->
       IF n \in remove /\ installed[n] \in cached[n] THEN installed[n] ELSE "none"]
  /\ ready' = (remove # {})
  /\ Goto("confirm")
  /\ UNCHANGED <<machine, remove, writable, before>>

(* Mutant: the copies are named before they are looked for.                *)
CaptureUnchecked ==
  /\ pc = "capture"
  /\ staged' = [n \in Name |-> IF n \in remove THEN installed[n] ELSE "none"]
  /\ ready' = (remove # {})
  /\ Goto("confirm")
  /\ UNCHANGED <<machine, remove, writable, before>>

(* The versions are those installed now, not when they were selected.      *)
Capture ==
  /\ pc = "capture"
  /\ staged' = [n \in Name |->
       IF n \in remove /\ installed[n] \in cached[n] THEN installed[n] ELSE "none"]
  /\ ready' = (remove # {} /\ \A n \in remove : Present(staged', n))
  /\ Goto("confirm")
  /\ UNCHANGED <<machine, remove, writable, before>>

Confirm ==
  /\ pc = "confirm"
  /\ Goto("disable")
  /\ UNCHANGED <<machine, remove, staged, ready, writable, before>>

(* The first question is only asked about stock packages.                  *)
Cancel ==
  /\ pc = "confirm" \/ (pc = "confirmStock" /\ remove \cap Stock # {})
  /\ Stop("cancelled")
  /\ UNCHANGED <<machine, remove, staged, ready, writable, before>>

-----------------------------------------------------------------------------
(* The transaction.                                                        *)

DisableReadonly ==
  /\ pc = "disable"
  /\ readonly' = FALSE
  /\ Goto("flag")
  /\ UNCHANGED <<packages, cached, menu, grubTool, swapDone, remove, staged, ready,
                 writable, before>>

SetFlag ==
  /\ pc = "flag"
  /\ writable' = TRUE
  /\ Goto("devmode")
  /\ UNCHANGED <<machine, remove, staged, ready, before>>

EnableDevmode ==
  /\ pc = "devmode"
  /\ Goto("remove")
  /\ UNCHANGED <<machine, remove, staged, ready, writable, before>>

(* pacman -Rdd wants all its targets installed; without targets it is not *)
(* called.                                                                 *)
Removable == \A n \in remove : Present(installed, n) /\ ~locked

RemoveOld ==
  /\ pc = "remove" /\ Removable
  /\ installed' = After(remove, NotStaged)
  /\ torn' = torn \ remove
  /\ Goto("install")
  /\ UNCHANGED <<locked, cached, menu, grubTool, readonly, swapDone, remove, staged, ready,
                 writable, before>>

(* Mutant: pacman is told to remove what is in conflict.                   *)
InstallReplacing ==
  /\ pc = "install"
  /\ installed' = [n \in Name |-> IF n \in Stock THEN "none" ELSE After(New, Release)[n]]
  /\ torn' = torn \ New
  /\ swapDone' \in {swapDone, TRUE}
  /\ Goto("configure")
  /\ UNCHANGED <<locked, cached, menu, grubTool, readonly, remove, staged, ready, writable,
                 before>>

(* The package's post_install migrates the swap, but its failure is not    *)
(* that of pacman.                                                         *)
InstallNew ==
  /\ pc = "install" /\ Accepted(New, Release)
  /\ installed' = After(New, Release)
  /\ torn' = torn \ New
  /\ swapDone' \in {swapDone, TRUE}
  /\ Goto("configure")
  /\ UNCHANGED <<locked, cached, menu, grubTool, readonly, remove, staged, ready, writable,
                 before>>

Configure ==
  /\ pc = "configure"
  /\ swapDone' = TRUE
  /\ Goto("menu")
  /\ UNCHANGED <<packages, cached, menu, grubTool, readonly, remove, staged, ready,
                 writable, before>>

UpdateMenu ==
  /\ pc = "menu" /\ grubTool
  /\ menu' \in Menus
  /\ Stop("success")
  /\ UNCHANGED <<packages, cached, grubTool, readonly, swapDone, remove, staged, ready,
                 writable, before>>

-----------------------------------------------------------------------------
(* attempt_rollback().                                                     *)

NoRollback ==
  /\ pc = "rollback" /\ ~ready
  /\ Stop("doNotReboot")
  /\ UNCHANGED <<machine, remove, staged, ready, writable, before>>

Rollback ==
  /\ pc = "rollback" /\ ready
  /\ Goto("restore")
  /\ UNCHANGED <<machine, remove, staged, ready, writable, before>>

Staged == {n \in Name : Present(staged, n)}

Restore ==
  /\ pc = "restore" /\ Accepted(Staged, staged)
  /\ installed' = After(Staged, staged)
  /\ torn' = torn \ Staged
  /\ Goto("restoreMenu")
  /\ UNCHANGED <<locked, cached, menu, grubTool, readonly, swapDone, remove, staged, ready,
                 writable, before>>

(* A failure to update the bootloader is ignored; the lack of a program    *)
(* that could do it ends the script with an error.                         *)
RestoreMenu ==
  /\ pc = "restoreMenu"
  /\ IF grubTool
       THEN menu' \in {menu} \cup Menus /\ Stop("restored")
       ELSE UNCHANGED menu /\ Stop("error")
  /\ UNCHANGED <<packages, cached, grubTool, readonly, swapDone, remove, staged, ready,
                 writable, before>>

-----------------------------------------------------------------------------
(* cleanup(): the trap on EXIT.                                            *)

NoScript ==
  /\ pc' = "idle" /\ remove' = {} /\ staged' = NotStaged /\ ready' = FALSE
  /\ writable' = FALSE /\ endedAt' = "idle" /\ before' = Unknown

CleanUp ==
  /\ pc = "cleanup"
  /\ readonly' = (readonly \/ writable)
  /\ NoScript
  /\ UNCHANGED <<packages, cached, menu, grubTool, swapDone, outcome>>

(* Mutant: the exit status stays that of the script.                       *)
CleanUpFailsSilently ==
  /\ pc = "cleanup" /\ writable
  /\ NoScript
  /\ UNCHANGED <<machine, outcome>>

CleanUpFails ==
  /\ pc = "cleanup" /\ writable
  /\ outcome' = "readonlyWarning"
  /\ NoScript
  /\ UNCHANGED machine

-----------------------------------------------------------------------------
(* What can go wrong.                                                      *)

(* The packages of the pacman transaction at pc, unless it is refused, and *)
(* the versions it is to give them.                                        *)
Targets ==
  CASE pc = "remove" /\ Removable -> remove
    [] pc = "install" /\ Accepted(New, Release) -> New
    [] pc = "restore" /\ Accepted(Staged, staged) -> Staged
    [] OTHER -> {}

Result ==
  CASE pc = "remove" -> NotStaged
    [] pc = "restore" -> staged
    [] OTHER -> Release

(* A pacman transaction that ends without success has dealt with some of   *)
(* its packages; one it could not extract is registered all the same.      *)
PartlyInstalled ==
  \E S \in SUBSET Targets :
    /\ installed' = After(S, Result)
    /\ \/ torn' = torn \ S
       \/ pc # "remove" /\ \E t \in S : torn' = (torn \ S) \cup {t}
    /\ UNCHANGED locked

(* One that is killed leaves its lock, and if it was at a package t, leaves *)
(* that torn: a package is unregistered after its files are removed, and    *)
(* registered after its files are extracted, the old version having been    *)
(* removed.                                                                 *)
CutShort ==
  /\ Targets # {}
  /\ \E S \in SUBSET Targets :
       \/ /\ installed' = After(S, Result)
          /\ torn' = torn \ S
       \/ \E t \in Targets \ S :
            /\ installed' = [n \in Name |->
                 IF n = t /\ pc # "remove" THEN "none" ELSE After(S, Result)[n]]
            /\ torn' = (torn \ S) \cup {t}
  /\ locked' = TRUE

(* The command at pc ends without success, its work done, in part or not.  *)
Unfinished ==
  /\ readonly' \in IF pc = "disable" THEN {readonly, FALSE} ELSE {readonly}
  /\ UNCHANGED <<cached, menu, grubTool, swapDone>>

Broken == PartlyInstalled /\ Unfinished

(* A command that cannot succeed: pacman finds its database locked, misses *)
(* a target or refuses a file or a conflict, or no program updates the     *)
(* bootloader.                                                             *)
Refuse ==
  /\ \/ pc = "remove" /\ ~Removable /\ Stop("error")
     \/ pc = "install" /\ ~Accepted(New, Release) /\ Goto("rollback")
     \/ pc = "restore" /\ ~Accepted(Staged, staged) /\ Stop("doNotReboot")
     \/ pc = "menu" /\ ~grubTool /\ Stop("error")
  /\ UNCHANGED <<machine, remove, staged, ready, writable, before>>

(* set -e ends the script at a command that fails.                         *)
Fail ==
  /\ pc \in {"download", "select", "capture", "disable", "devmode", "remove", "configure", "menu"}
  /\ pc = "remove" => remove # {}
  /\ Broken
  /\ Stop("error")
  /\ UNCHANGED <<remove, staged, ready, writable, before>>

InstallFails ==
  /\ pc = "install"
  /\ Broken
  /\ Goto("rollback")
  /\ UNCHANGED <<remove, staged, ready, writable, before>>

(* Mutant: the result of the rollback is not looked at.                    *)
RestoreFailsUnseen ==
  /\ pc = "restore"
  /\ Broken
  /\ Goto("restoreMenu")
  /\ UNCHANGED <<remove, staged, ready, writable, before>>

RestoreFails ==
  /\ pc = "restore"
  /\ Broken
  /\ Stop("doNotReboot")
  /\ UNCHANGED <<remove, staged, ready, writable, before>>

(* A signal ends the script; the trap on EXIT runs.  Pacman finishes the   *)
(* package it is at and removes its lock.                                  *)
Interrupt ==
  /\ pc \notin {"idle", "cleanup"}
  /\ Broken
  /\ Stop("interrupted")
  /\ UNCHANGED <<remove, staged, ready, writable, before>>

(* SIGKILL or a loss of power: nothing runs any more, and pacman, unless   *)
(* only the script was killed, is cut short.                               *)
Kill ==
  /\ pc # "idle"
  /\ PartlyInstalled \/ CutShort
  /\ Unfinished
  /\ outcome' = "killed"
  /\ NoScript

(* Somebody removes the lock, and files without a package, by hand.        *)
Repair ==
  /\ pc = "idle"
  /\ locked \/ Strays # {}
  /\ locked' = FALSE
  /\ torn' = torn \cap Registered
  /\ UNCHANGED <<installed, cached, menu, grubTool, readonly, swapDone, script>>

Asking == {"idle", "download", "select", "confirmStock", "capture", "confirm", "disable", "flag",
           "devmode", "remove"}

(* Until the script removes packages another pacman may install, upgrade   *)
(* or remove a stock package.                                              *)
OtherPacman(n, v) ==
  /\ pc \in Asking
  /\ n \in Stock \ Strays /\ ~locked
  /\ torn' = torn \ {n}
  /\ installed' = [installed EXCEPT ![n] = v] /\ ~Conflict(installed')
  /\ cached' = [cached EXCEPT ![n] = IF v = "none" THEN @ ELSE @ \cup {v}]
  /\ UNCHANGED <<locked, menu, grubTool, readonly, swapDone, pc, remove, staged, ready,
                 writable, outcome, endedAt>>
  /\ before' = [before EXCEPT !.bootable = @ /\ Bootable']

Disturbance ==
  \/ Cancel \/ CleanUpFails \/ Fail \/ InstallFails \/ RestoreFails \/ Interrupt \/ Kill
  \/ Repair
  \/ \E n \in Name : OtherPacman(n, "none") \/ OtherPacman(n, "upgraded")

Step ==
  \/ Start \/ Download \/ Select \/ ConfirmStock \/ Capture \/ Confirm
  \/ DisableReadonly \/ SetFlag \/ EnableDevmode \/ RemoveOld \/ InstallNew
  \/ Configure \/ UpdateMenu \/ NoRollback \/ Rollback \/ Restore \/ RestoreMenu \/ CleanUp

Next == Step \/ Refuse \/ Disturbance

Spec == Init /\ [][Next]_vars

-----------------------------------------------------------------------------
(* Properties.                                                             *)

Complete ==
  /\ \A n \in New : installed[n] = "new" /\ n \notin torn
  /\ "series" \in menu
  /\ swapDone /\ readonly

(* A run that ends with status 0 has done everything: both packages, swap, *)
(* bootloader and read-only mode.                                          *)
SuccessMeansComplete ==
  [][pc = "cleanup" /\ pc' = "idle" /\ outcome' = "success" => Complete']_vars

(* The script makes no package disappear but those it listed when it asked *)
(* for confirmation.                                                       *)
ConsentedRemovals ==
  [][\A n \in Name : pc # pc' /\ Present(installed, n) /\ ~Present(installed', n) =>
       n \in remove /\ outcome = "none"]_vars

(* "previous kernel packages were restored": every package that the run    *)
(* removed is whole again.                                                 *)
RestoredMeansPrevious ==
  outcome = "restored" /\ pc = "cleanup" =>
    \A n \in remove : n \in Intact /\ installed[n] # "new"

(* A run that leaves an installed system without a kernel its boot menu    *)
(* lists says so, unless it was interrupted or the removal, the swap       *)
(* migration or the update of the menu failed.                             *)
UnbootableExitWarns ==
  pc = "cleanup" /\ before.bootable /\ ~Bootable =>
    \/ outcome \in {"doNotReboot", "interrupted"}
    \/ endedAt \in {"remove", "configure", "menu"}
=============================================================================
