----------------------------- MODULE GamingSwap -----------------------------
(***************************************************************************)
(* The swap migration of configure-gaming-swap: Migration.install().       *)
(*                                                                         *)
(* The migration gives the machine one managed swap file as large as its   *)
(* RAM, moves every other file swap and zram off, makes the new            *)
(* arrangement the one of the next boot and deletes the old files.  It is  *)
(* a sequence of system calls and commands, each of which may raise, be    *)
(* cut short by a loss of power, or interleave with somebody activating a  *)
(* swap file; and it is run again on every kernel package upgrade, possibly*)
(* with another amount of RAM.  One action is one call that changes state; *)
(* pc names the next call of the run that holds the flock of main().       *)
(***************************************************************************)
EXTENDS Naturals, FiniteSets

CONSTANTS
  Known,      \* swap files under one of KNOWN_FILES
  Scanned,    \* files the scan of orphan_swapfiles() recognises by their name
  Elsewhere,  \* swap files in a place neither of the two looks at
  Base,       \* /home/.gaming-swap/swapfile
  Zram,       \* the zram device and its units
  NoFile,     \* value of a local variable that holds no file
  Sizes       \* amounts of RAM the machine may have

ASSUME SizesAssumption == Sizes \subseteq Nat \ {0} /\ Sizes # {}

(* /home/.gaming-swap/swapfile and /home/.gaming-swap/swapfile-<size>.     *)
Managed == {Base} \cup {<<Base, s>> : s \in Sizes}

Legacy == Known \cup Scanned \cup Elsewhere

Name == Legacy \cup Managed

(* The script lists a handful of places and reads finite files and         *)
(* directories; a machine has no more memory than it has room for.         *)
ASSUME FinitenessAssumption == IsFiniteSet(Legacy) /\ IsFiniteSet(Sizes)

ASSUME NamesAssumption ==
  /\ Known \cap Scanned = {} /\ Known \cap Elsewhere = {}
  /\ Scanned \cap Elsewhere = {} /\ Legacy \cap Managed = {}
  /\ \A s \in Sizes : <<Base, s>> # Base
  /\ Zram \notin Name /\ NoFile \notin Name /\ NoFile # Zram

VARIABLES
  sig,        \* what each path holds: nothing, a file without, or with, a swap signature
  size,       \* size of each file
  fstab,      \* paths with a swap line in /etc/fstab
  sunits,     \* paths with a .swap unit file of their own
  masked,     \* paths (or Zram) whose unit is a link to /dev/null
  policy,     \* persisted parts of the zswap policy
  active,     \* /proc/swaps
  loaded,     \* paths whose .swap unit systemd has loaded
  zswap,      \* whether zswap is enabled in the running kernel
  ram,        \* size computed from MemTotal
  pc, target, created, wasActive, files, fileUnits, todo, victim  \* the run's locals

disk  == <<sig, size>>
boot  == <<fstab, sunits, masked, policy>>
live  == <<active, loaded, zswap>>
local == <<pc, target, created, wasActive, files, fileUnits, todo, victim>>
vars  == <<disk, boot, live, ram, local>>

Device == Name \cup {Zram}

Policies == {"modprobe", "tmpfiles", "cmdline", "service"}

PC == {"idle", "prepare", "format", "swapon", "list", "drain", "fstab", "zram",
       "tmpfiles", "units", "cmdline", "unmask", "enable", "start", "check",
       "delete", "unlink", "runtime", "bootloader", "done"}

(* A unit reports its path as What=, or, when its metadata is stale,       *)
(* another one.                                                            *)
UnitMap == UNION {[U -> Name] : U \in SUBSET Name}

TypeOK ==
  /\ sig \in [Name -> {"absent", "unsigned", "swap"}]
  /\ size \in [Name -> Sizes \cup {0}]
  /\ fstab \subseteq Name /\ sunits \subseteq Name
  /\ masked \subseteq Device
  /\ policy \subseteq Policies
  /\ active \subseteq Device /\ loaded \subseteq Name
  /\ zswap \in BOOLEAN
  /\ ram \in Sizes
  /\ pc \in PC
  /\ target \in Name \cup {NoFile} /\ victim \in Name \cup {NoFile}
  /\ created \in BOOLEAN
  /\ wasActive \subseteq Device
  /\ files \subseteq Name
  /\ fileUnits \in UnitMap
  /\ todo \subseteq Device

-----------------------------------------------------------------------------
(* What a boot does with the persistent configuration.                     *)

Exists(f) == sig[f] # "absent"

BootUnits == (fstab \cup sunits) \ masked

BootFiles == {f \in BootUnits : sig[f] = "swap"}

BootZram == IF "modprobe" \in policy \/ Zram \in masked THEN {} ELSE {Zram}

(* The tmpfiles rule of SteamOS runs after gaming-zswap.service and turns  *)
(* zswap off again unless it is masked.                                    *)
BootZswap == {"service", "tmpfiles"} \subseteq policy

(* The locals of a run that is not in progress.                            *)
NoRun ==
  /\ pc' = "idle" /\ target' = NoFile /\ created' = FALSE /\ wasActive' = {}
  /\ files' = {} /\ fileUnits' = [u \in {} |-> NoFile]
  /\ todo' = {} /\ victim' = NoFile

Init ==
  /\ sig \in {s \in [Name -> {"absent", "unsigned", "swap"}] :
                \A f \in Managed : s[f] = "absent"}
  /\ size = [f \in Name |-> 0]
  /\ fstab \in SUBSET Legacy
  /\ sunits \in SUBSET Legacy
  /\ masked = {} /\ policy = {}
  /\ ram \in Sizes
  /\ active = BootFiles \cup {Zram}
  /\ loaded = BootUnits
  /\ zswap = FALSE
  /\ pc = "idle" /\ target = NoFile /\ created = FALSE /\ wasActive = {}
  /\ files = {} /\ fileUnits = [u \in {} |-> NoFile]
  /\ todo = {} /\ victim = NoFile

-----------------------------------------------------------------------------
(* Inventory: active(), units() and old_files().                           *)

ListedUnits == {u \in loaded : Exists(u)}

(* The stale metadata of unit v, of a managed file, names another file w.  *)
StaleUnits(v, w) == [u \in ListedUnits \cup {v} |-> IF u = v THEN w ELSE u]

(* Units with an existing file, with the path they report.                 *)
ReportedUnits ==
  {[u \in ListedUnits |-> u]} \cup
  {StaleUnits(v, w) : v \in loaded \cap Managed, w \in {f \in Name : Exists(f)}}

(* Mutant: the scan of the conventional places is left out.                *)
CandidatesWithoutScan(units) == {f \in Name :
  \/ f \in active \cup fstab
  \/ \E u \in DOMAIN units : units[u] = f
  \/ f \in Known \cup Managed /\ Exists(f)}

(* Mutant: the managed names of other sizes are not looked for.             *)
CandidatesWithoutSizes(units) == {f \in Name :
  \/ f \in active \cup fstab
  \/ \E u \in DOMAIN units : units[u] = f
  \/ f \in Known /\ Exists(f)
  \/ f \in Scanned /\ sig[f] = "swap"}

Candidates(units) == {f \in Name :
  \/ f \in active \cup fstab
  \/ \E u \in DOMAIN units : units[u] = f
  \/ f \in Known \cup Managed /\ Exists(f)
  \/ f \in Scanned /\ sig[f] = "swap"}

(* An existing candidate without a swap signature stops the run before it  *)
(* has changed anything.                                                   *)
Inventory ==
  /\ pc = "idle"
  /\ \E units \in ReportedUnits :
       /\ \A f \in Candidates(units) : sig[f] # "unsigned"
       /\ fileUnits' = units
       /\ files' = {f \in Candidates(units) : Exists(f)}
  /\ wasActive' = active
  /\ pc' = "prepare"
  /\ UNCHANGED <<disk, boot, live, ram, target, created, todo, victim>>

-----------------------------------------------------------------------------
(* prepare(): choose the managed name, reuse or create the file.           *)

ManagedName ==
  IF Exists(Base) /\ size[Base] # ram THEN <<Base, ram>> ELSE Base

(* Mutant: an existing managed file is an error.                           *)
ReuseNothing ==
  /\ pc = "prepare"
  /\ sig[ManagedName] = "swap"
  /\ NoRun
  /\ UNCHANGED <<disk, boot, live, ram>>

Reuse ==
  /\ pc = "prepare"
  /\ sig[ManagedName] = "swap" /\ size[ManagedName] = ram
  /\ target' = ManagedName
  /\ created' = FALSE
  /\ pc' = "swapon"
  /\ UNCHANGED <<disk, boot, live, ram, wasActive, files, fileUnits, todo, victim>>

(* The file appears empty and grows; it has no signature before mkswap.    *)
Create ==
  /\ pc = "prepare"
  /\ ~Exists(ManagedName)
  /\ target' = ManagedName
  /\ created' = TRUE
  /\ sig' = [sig EXCEPT ![ManagedName] = "unsigned"]
  /\ \E n \in {0, ram} : size' = [size EXCEPT ![ManagedName] = n]
  /\ pc' = "format"
  /\ UNCHANGED <<boot, live, ram, wasActive, files, fileUnits, todo, victim>>

Format ==
  /\ pc = "format"
  /\ sig' = [sig EXCEPT ![target] = "swap"]
  /\ size' = [size EXCEPT ![target] = ram]
  /\ pc' = "swapon"
  /\ UNCHANGED <<boot, live, ram, target, created, wasActive, files, fileUnits, todo, victim>>

-----------------------------------------------------------------------------
(* install(): activate the replacement, then drain everything else.        *)

SwapOn ==
  /\ pc = "swapon"
  /\ \/ target \in wasActive /\ UNCHANGED live
     \/ /\ target \notin wasActive /\ target \notin active
        /\ active' = active \cup {target}
        /\ loaded' = loaded \cup {target}
        /\ UNCHANGED zswap
  /\ pc' = "list"
  /\ created' = FALSE /\ wasActive' = {}     \* not read again
  /\ UNCHANGED <<disk, boot, ram, target, files, fileUnits, todo, victim>>

ListSwaps ==
  /\ pc = "list"
  /\ todo' = active \ {target}
  /\ pc' = "drain"
  /\ UNCHANGED <<disk, boot, live, ram, target, created, wasActive, files, fileUnits, victim>>

SwapOff(d) ==
  /\ pc = "drain" /\ d \in todo
  /\ active' = active \ {d}
  /\ todo' = todo \ {d}
  /\ UNCHANGED <<disk, boot, loaded, zswap, ram, pc, target, created, wasActive, files,
                 fileUnits, victim>>

Drained ==
  /\ pc = "drain" /\ todo = {}
  /\ pc' = "fstab"
  /\ UNCHANGED <<disk, boot, live, ram, target, created, wasActive, files, fileUnits, todo, victim>>

-----------------------------------------------------------------------------
(* persist(): make the replacement the swap of the next boot.              *)

(* Mutant: the appended line names another variable.                       *)
RewriteFstabWrongVariable ==
  /\ pc = "fstab"
  /\ fstab' = (fstab \ files) \cup {victim}
  /\ pc' = "zram"
  /\ UNCHANGED <<disk, sunits, masked, policy, live, ram, target, created, wasActive, files,
                 fileUnits, todo, victim>>

(* Mutant: the line of the replacement is not appended.                    *)
RewriteFstabDropOnly ==
  /\ pc = "fstab"
  /\ fstab' = fstab \ files
  /\ pc' = "zram"
  /\ UNCHANGED <<disk, sunits, masked, policy, live, ram, target, created, wasActive, files,
                 fileUnits, todo, victim>>

(* Mutant: the old lines are kept.                                         *)
RewriteFstabAppendOnly ==
  /\ pc = "fstab"
  /\ fstab' = fstab \cup {target}
  /\ pc' = "zram"
  /\ UNCHANGED <<disk, sunits, masked, policy, live, ram, target, created, wasActive, files,
                 fileUnits, todo, victim>>

RewriteFstab ==
  /\ pc = "fstab"
  /\ fstab' = (fstab \ files) \cup {target}
  /\ pc' = "zram"
  /\ UNCHANGED <<disk, sunits, masked, policy, live, ram, target, created, wasActive, files,
                 fileUnits, todo, victim>>

DisableZram ==
  /\ pc = "zram"
  /\ policy' = policy \cup {"modprobe"}
  /\ pc' = "tmpfiles"
  /\ UNCHANGED <<disk, fstab, sunits, masked, live, ram, target, created, wasActive, files,
                 fileUnits, todo, victim>>

(* Mutant: the unit of the target is not discarded.                        *)
DisabledWithTarget ==
  {u \in DOMAIN fileUnits : fileUnits[u] # target /\ fileUnits[u] \in files} \cup {Zram}

(* The units to retire; a unit with the canonical name of the target is    *)
(* never one of them, whatever path it reports.                            *)
Disabled ==
  ({u \in DOMAIN fileUnits : fileUnits[u] # target /\ fileUnits[u] \in files} \cup {Zram})
    \ {target}

MaskTmpfiles ==
  /\ pc = "tmpfiles"
  /\ policy' = policy \cup {"tmpfiles"}
  /\ todo' = Disabled
  /\ pc' = "units"
  /\ fileUnits' = [u \in {} |-> NoFile]       \* not read again
  /\ UNCHANGED <<disk, fstab, sunits, masked, live, ram, target, created, wasActive, files,
                 victim>>

(* systemctl stop and disable; a unit file is renamed before it is masked. *)
RenameUnit(u) ==
  /\ pc = "units" /\ u \in todo /\ u \in sunits
  /\ active' = active \ {u}
  /\ sunits' = sunits \ {u}
  /\ UNCHANGED <<disk, fstab, masked, policy, loaded, zswap, ram, local>>

MaskUnit(u) ==
  /\ pc = "units" /\ u \in todo /\ u \notin sunits
  /\ active' = active \ {u}
  /\ masked' = masked \cup {u}
  /\ todo' = todo \ {u}
  /\ UNCHANGED <<disk, fstab, sunits, policy, loaded, zswap, ram, pc, target, created, wasActive,
                 files, fileUnits, victim>>

UnitsMasked ==
  /\ pc = "units" /\ todo = {}
  /\ pc' = "cmdline"
  /\ UNCHANGED <<disk, boot, live, ram, target, created, wasActive, files, fileUnits, todo, victim>>

WriteCmdline ==
  /\ pc = "cmdline"
  /\ policy' = policy \cup {"cmdline"}
  /\ pc' = "unmask"
  /\ UNCHANGED <<disk, fstab, sunits, masked, live, ram, target, created, wasActive, files,
                 fileUnits, todo, victim>>

(* Mutant: the unit of the target stays masked.                            *)
UnmaskNothing ==
  /\ pc = "unmask"
  /\ masked' = masked
  /\ pc' = "enable"
  /\ UNCHANGED <<disk, fstab, sunits, policy, live, ram, target, created, wasActive, files,
                 fileUnits, todo, victim>>

UnmaskTarget ==
  /\ pc = "unmask"
  /\ masked' = masked \ {target}
  /\ pc' = "enable"
  /\ UNCHANGED <<disk, fstab, sunits, policy, live, ram, target, created, wasActive, files,
                 fileUnits, todo, victim>>

(* systemctl daemon-reload, then enable gaming-zswap.service.              *)
EnableService ==
  /\ pc = "enable"
  /\ loaded' = BootUnits \cup (active \cap Name)
  /\ policy' = policy \cup {"service"}
  /\ pc' = "start"
  /\ UNCHANGED <<disk, fstab, sunits, masked, active, zswap, ram, target, created, wasActive,
                 files, fileUnits, todo, victim>>

StartTarget ==
  /\ pc = "start"
  /\ active' = active \cup {target}
  /\ pc' = "check"
  /\ UNCHANGED <<disk, boot, loaded, zswap, ram, target, created, wasActive, files, fileUnits,
                 todo, victim>>

-----------------------------------------------------------------------------
(* install(): verify the replacement and delete the old files.             *)

CheckTarget ==
  /\ pc = "check" /\ target \in active
  /\ todo' = files \ {target}
  /\ files' = {}                             \* not read again
  /\ pc' = "delete"
  /\ UNCHANGED <<disk, boot, live, ram, target, created, wasActive, fileUnits, victim>>

(* /proc/swaps is read again for each file, some time before the unlink.   *)
CheckInactive(f) ==
  /\ pc = "delete" /\ f \in todo /\ f \notin active
  /\ victim' = f
  /\ pc' = "unlink"
  /\ UNCHANGED <<disk, boot, live, ram, target, created, wasActive, files, fileUnits, todo>>

(* The kernel refuses to unlink an active swap file.                       *)
Unlink ==
  /\ pc = "unlink" /\ victim \notin active
  /\ sig' = [sig EXCEPT ![victim] = "absent"]
  /\ size' = [size EXCEPT ![victim] = 0]
  /\ todo' = todo \ {victim}
  /\ victim' = NoFile
  /\ pc' = "delete"
  /\ UNCHANGED <<boot, live, ram, target, created, wasActive, files, fileUnits>>

Deleted ==
  /\ pc = "delete" /\ todo = {}
  /\ pc' = "runtime"
  /\ UNCHANGED <<disk, boot, live, ram, target, created, wasActive, files, fileUnits, todo, victim>>

(* A kernel without zswap, or one that refuses a parameter, is tolerated.  *)
Runtime ==
  /\ pc = "runtime"
  /\ zswap' \in {zswap, TRUE}
  /\ pc' = "bootloader"
  /\ UNCHANGED <<disk, boot, active, loaded, ram, target, created, wasActive, files, fileUnits,
                 todo, victim>>

UpdateBootloader ==
  /\ pc = "bootloader"
  /\ pc' = "done"
  /\ UNCHANGED <<disk, boot, live, ram, target, created, wasActive, files, fileUnits, todo, victim>>

Return ==
  /\ pc = "done"
  /\ NoRun
  /\ UNCHANGED <<disk, boot, live, ram>>

-----------------------------------------------------------------------------
(* What can go wrong.                                                      *)

(* An exception ends the run: main() reports it.  The file this run        *)
(* created is removed as long as it is not in use; nothing else is undone. *)
Raise ==
  /\ IF created /\ pc \in {"format", "swapon"} /\ target \notin active
       THEN /\ sig' = [sig EXCEPT ![target] = "absent"]
            /\ size' = [size EXCEPT ![target] = 0]
       ELSE UNCHANGED disk
  /\ NoRun
  /\ UNCHANGED <<boot, live, ram>>

(* The next call cannot succeed because of somebody else's swapon, or the  *)
(* run finds out and raises a MigrationError.  (The same check of the      *)
(* target never finds it inactive, by ReplacementFirst.)                   *)
Refuse ==
  /\ \/ pc = "swapon" /\ target \notin wasActive /\ target \in active
     \/ pc = "delete" /\ todo \cap active # {}
     \/ pc = "unlink" /\ victim \in active
  /\ Raise

(* Any other call may fail: no space, a command that returns an error, ... *)
Fail ==
  /\ pc \notin {"idle", "runtime", "done"}
  /\ Raise

(* The run is interrupted or killed: no exception handler runs.            *)
Kill ==
  /\ pc # "idle"
  /\ NoRun
  /\ UNCHANGED <<disk, boot, live, ram>>

(* Power is lost and comes back, possibly with other memory modules.       *)
Reboot ==
  /\ ram' \in Sizes
  /\ active' = BootFiles \cup BootZram
  /\ loaded' = BootUnits
  /\ zswap' = BootZswap
  /\ NoRun
  /\ UNCHANGED <<disk, boot>>

(* Somebody else activates a swap file that exists.                        *)
Reactivate(f) ==
  /\ sig[f] = "swap" /\ f \notin active
  /\ active' = active \cup {f}
  /\ loaded' = loaded \cup {f}
  /\ UNCHANGED <<disk, boot, zswap, ram, local>>

Disturbance == Fail \/ Kill \/ Reboot \/ \E f \in Name : Reactivate(f)

Step ==
  \/ Inventory \/ Reuse \/ Create \/ Format
  \/ SwapOn \/ ListSwaps \/ (\E d \in Device : SwapOff(d)) \/ Drained
  \/ RewriteFstab \/ DisableZram \/ MaskTmpfiles
  \/ (\E u \in Device : RenameUnit(u) \/ MaskUnit(u)) \/ UnitsMasked
  \/ WriteCmdline \/ UnmaskTarget \/ EnableService \/ StartTarget
  \/ CheckTarget \/ (\E f \in Name : CheckInactive(f)) \/ Unlink \/ Deleted
  \/ Runtime \/ UpdateBootloader \/ Return

Next == Step \/ Refuse \/ Disturbance

Spec == Init /\ [][Next]_vars

-----------------------------------------------------------------------------
(* Properties.                                                             *)

Draining   == {"list", "drain", "fstab", "zram", "tmpfiles", "units", "cmdline", "unmask",
               "enable", "start", "check"}
Deleting   == {"delete", "unlink", "runtime", "bootloader", "done"}

(* "A working replacement is activated before draining or deleting any     *)
(* previous swapfile": from the first swapoff to the end of the run the    *)
(* managed file is a swap file as large as RAM, and it is active.          *)
ReplacementFirst ==
  pc \in Draining \cup Deleting =>
    /\ sig[target] = "swap" /\ size[target] = ram
    /\ target \in active

(* A file that is deleted is in use neither now nor, through fstab, after  *)
(* the next boot, and it held swap and not the user's data; the exception  *)
(* is the file this very run was creating.                                 *)
DeletesOnlyRetiredSwap ==
  [][\A f \in Name :
       Exists(f) /\ sig'[f] = "absent" =>
         /\ f \notin active /\ f \notin fstab
         /\ sig[f] = "swap" \/ (created /\ f = target)]_vars

(* Whatever interrupts the migration, a machine that had a file swap to    *)
(* boot with still has one.  The one window left open is a target whose    *)
(* unit an earlier migration masked, between fstab and systemctl unmask.   *)
BootKeepsSwap ==
  [][BootFiles # {} => BootFiles' # {} \/ target' \in masked']_vars

(* The window is closed before the run goes on to delete anything.         *)
NextBootReady ==
  pc \in Deleting => target \in BootFiles /\ BootZram = {} /\ BootZswap

(* A successful migration leaves the managed file as the only file swap of *)
(* the next boot and no other swap file in any place it knows.             *)
OldFilesGone ==
  pc = "done" =>
    /\ BootFiles = {target}
    /\ \A f \in Name \ (Elsewhere \cup {target}) : sig[f] # "swap"
=============================================================================
