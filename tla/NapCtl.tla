------------------------------- MODULE NapCtl -------------------------------
(***************************************************************************)
(* napctl: the commands save, restore and reset, which keep in /var/lib/nap*)
(* what the nap cpuidle governor has learned.                              *)
(*                                                                         *)
(* The kernel shows the weights of the CPU selected by the file            *)
(* weights_cpu, which all processes share; the commands serialise on a     *)
(* flock.  A save writes a temporary file, rotates state to state.prev and *)
(* renames the temporary file to state; a restore loads the first of the   *)
(* two that it finds usable.  CPUs learn and are plugged in and out at any *)
(* time, a process may die at any step, and so may the machine: it then    *)
(* finds some earlier state of the directory, as renames reach the disk in *)
(* order but only the fsync of the directory waits for them.               *)
(*                                                                         *)
(* Weights are told apart by the CPU that learned them.                    *)
(***************************************************************************)
EXTENDS Naturals, FiniteSets

CONSTANTS
  CPU,
  Proc,        \* napctl processes: the timer, the services, the administrator
  Machine,     \* what machine_signature() may return
  MaxSaves,    \* bound on the snapshots written
  MayDamage,   \* whether a file may become damaged
  NoProc, NoCPU, Unlearned, Mean, NoFile, Damaged

VARIABLES
  weights,     \* weights[c]: whose weights CPU c uses
  selected,    \* weights_cpu
  online,      \* CPUs in .../cpu/online
  machine,     \* the signature of this boot
  lock,        \* holder of /run/lock/napctl.lock
  dir,         \* state and state.prev
  crashDirs,   \* the directories a crash may leave
  written,     \* number of snapshots written so far
  completed,   \* number of the snapshot of the last save that completed
  damaged,     \* whether a file was damaged
  boot,        \* changes with every crash
  pc, todo, cpu, recs, tmp, file, \* locals of each process
  trouble      \* what happened to each process: a CPU was loaded, a load failed

kernel == <<weights, selected, online, machine>>
fs     == <<dir, crashDirs>>
ghost  == <<written, completed, damaged, boot>>
local  == <<pc, todo, cpu, recs, tmp, file, trouble>>
vars   == <<kernel, lock, fs, ghost, local>>

-----------------------------------------------------------------------------
(* Snapshot files.                                                         *)

Weights == CPU \cup {Mean}

Records == UNION {[C -> Weights] : C \in SUBSET CPU}

NoRecords == [c \in {} |-> Mean]

(* Records r with w filed under c.                                         *)
Filed(r, c, w) == [d \in DOMAIN r \cup {c} |-> IF d = c THEN w ELSE r[d]]

(* ser numbers the snapshots in the order they are written; synced tells   *)
(* that the data reached the disk.                                         *)
Snapshot == [ser : 1 .. MaxSaves, sig : Machine, recs : Records, synced : BOOLEAN]

(* The kernel lists the CPUs in one directory.                             *)
ASSUME CPUsAssumption == IsFiniteSet(CPU)

ASSUME ConstantsAssumption ==
  /\ MaxSaves \in Nat /\ MayDamage \in BOOLEAN
  /\ NoProc \notin Proc
  /\ Unlearned \notin CPU /\ Mean \notin CPU /\ NoCPU \notin CPU /\ Unlearned # Mean
  /\ NoFile \notin Snapshot /\ Damaged \notin Snapshot /\ NoFile # Damaged

Paths == {"state", "prev"}

(* read_state() accepts only what write_state() wrote in full, and         *)
(* apply_state() only what this machine wrote.                             *)
Valid(f) == f # NoFile /\ f # Damaged

Usable(f) == Valid(f) /\ f.sig = machine

(* The number of the snapshot a restore of directory d uses first.         *)
Chosen(d) ==
  IF Valid(d["state"]) THEN d["state"].ser
  ELSE IF Valid(d["prev"]) THEN d["prev"].ser
  ELSE 0

TypeOK ==
  /\ weights \in [CPU -> Weights \cup {Unlearned}]
  /\ selected \in CPU \cup {NoCPU}
  /\ online \subseteq CPU
  /\ machine \in Machine
  /\ lock \in Proc \cup {NoProc}
  /\ dir \in [Paths -> Snapshot \cup {NoFile, Damaged}]
  /\ crashDirs \subseteq [Paths -> Snapshot \cup {NoFile, Damaged}]
  /\ written \in 0 .. MaxSaves /\ completed \in 0 .. MaxSaves
  /\ damaged \in BOOLEAN /\ boot \in BOOLEAN
  /\ pc \in [Proc -> {"idle", "dump", "read", "rotate", "install", "sync",
                      "open", "load", "write", "default", "reset"}]
  /\ todo \in [Proc -> SUBSET CPU]
  /\ cpu \in [Proc -> CPU \cup {NoCPU}]
  /\ recs \in [Proc -> Records]
  /\ tmp \in [Proc -> Snapshot \cup {NoFile}]
  /\ file \in [Proc -> Paths]
  /\ trouble \in [Proc -> SUBSET {"loaded", "failed"}]

Init ==
  /\ weights = [c \in CPU |-> Unlearned]
  /\ selected = NoCPU
  /\ online = CPU
  /\ machine \in Machine
  /\ lock = NoProc
  /\ dir = [n \in Paths |-> NoFile]
  /\ crashDirs = {dir}
  /\ written = 0 /\ completed = 0 /\ damaged = FALSE /\ boot = FALSE
  /\ pc = [p \in Proc |-> "idle"]
  /\ todo = [p \in Proc |-> {}]
  /\ cpu = [p \in Proc |-> NoCPU]
  /\ recs = [p \in Proc |-> NoRecords]
  /\ tmp = [p \in Proc |-> NoFile]
  /\ file = [p \in Proc |-> "state"]
  /\ trouble = [p \in Proc |-> {}]

Goto(p, l) == pc' = [pc EXCEPT ![p] = l]

(* The end of a command: the locals are gone, the lock is released.        *)
Exit(p) ==
  /\ Goto(p, "idle")
  /\ todo' = [todo EXCEPT ![p] = {}]
  /\ cpu' = [cpu EXCEPT ![p] = NoCPU]
  /\ recs' = [recs EXCEPT ![p] = NoRecords]
  /\ tmp' = [tmp EXCEPT ![p] = NoFile]
  /\ file' = [file EXCEPT ![p] = "state"]
  /\ trouble' = [trouble EXCEPT ![p] = {}]
  /\ lock' = IF lock = p THEN NoProc ELSE lock

(* Mutant: the lock is opened but not taken.                               *)
AcquireUnlocked(p) == pc[p] = "idle" /\ lock' = p

(* main() takes the lock before it runs a command.                         *)
Acquire(p) == pc[p] = "idle" /\ lock = NoProc /\ lock' = p

-----------------------------------------------------------------------------
(* cmd_save() and write_state().                                           *)

StartSave(p) ==
  /\ written < MaxSaves
  /\ Acquire(p)
  /\ todo' = [todo EXCEPT ![p] = online]
  /\ Goto(p, "dump")
  /\ UNCHANGED <<kernel, fs, ghost, cpu, recs, tmp, file, trouble>>

(* dump_cpu() selects a CPU; try_dump() skips one that is not there.       *)
DumpSelect(p, c) ==
  /\ pc[p] = "dump" /\ c \in todo[p]
  /\ todo' = [todo EXCEPT ![p] = @ \ {c}]
  /\ IF c \in online
       THEN /\ selected' = c
            /\ cpu' = [cpu EXCEPT ![p] = c]
            /\ Goto(p, "read")
       ELSE UNCHANGED <<selected, cpu, pc>>
  /\ UNCHANGED <<weights, online, machine, lock, fs, ghost, recs, tmp, file, trouble>>

(* Mutant: the error of a CPU that has not learned anything is ignored.    *)
DumpReadUnlearned(p) ==
  /\ pc[p] = "read"
  /\ recs' = [recs EXCEPT ![p] = Filed(@, cpu[p], weights[selected])]
  /\ Goto(p, "dump")
  /\ UNCHANGED <<kernel, lock, fs, ghost, todo, cpu, tmp, file, trouble>>

(* The kernel returns the weights of the selected CPU, or an error when    *)
(* that CPU has not learned anything.                                      *)
DumpRead(p) ==
  /\ pc[p] = "read"
  /\ recs' = IF weights[selected] = Unlearned THEN recs
             ELSE [recs EXCEPT ![p] = Filed(@, cpu[p], weights[selected])]
  /\ Goto(p, "dump")
  /\ UNCHANGED <<kernel, lock, fs, ghost, todo, cpu, tmp, file, trouble>>

(* Mutant: wait under the lock until some CPU has learned.                 *)
NothingLearnedRetry(p) ==
  /\ pc[p] = "dump" /\ todo[p] = {} /\ recs[p] = NoRecords
  /\ todo' = [todo EXCEPT ![p] = online]
  /\ UNCHANGED <<kernel, lock, fs, ghost, pc, cpu, recs, tmp, file, trouble>>

NothingLearned(p) ==
  /\ pc[p] = "dump" /\ todo[p] = {} /\ recs[p] = NoRecords
  /\ Exit(p)
  /\ UNCHANGED <<kernel, fs, ghost>>

(* Mutant: no fsync of the temporary file.                                 *)
WriteTmpUnsynced(p) ==
  /\ pc[p] = "dump" /\ todo[p] = {} /\ recs[p] # NoRecords
  /\ written' = written + 1
  /\ tmp' = [tmp EXCEPT ![p] =
       [ser |-> written + 1, sig |-> machine, recs |-> recs[p], synced |-> FALSE]]
  /\ Goto(p, "rotate")
  /\ UNCHANGED <<kernel, lock, fs, completed, damaged, boot, todo, cpu, recs, file, trouble>>

(* The temporary file is complete and synced before any rename.            *)
WriteTmp(p) ==
  /\ pc[p] = "dump" /\ todo[p] = {} /\ recs[p] # NoRecords
  /\ written' = written + 1
  /\ tmp' = [tmp EXCEPT ![p] =
       [ser |-> written + 1, sig |-> machine, recs |-> recs[p], synced |-> TRUE]]
  /\ Goto(p, "rotate")
  /\ UNCHANGED <<kernel, lock, fs, completed, damaged, boot, todo, cpu, recs, file, trouble>>

(* Mutant: the old state is unlinked instead of renamed.                   *)
RotateUnlink(p) ==
  /\ pc[p] = "rotate"
  /\ dir' = [dir EXCEPT !["state"] = NoFile]
  /\ crashDirs' = crashDirs \cup {dir'}
  /\ Goto(p, "install")
  /\ UNCHANGED <<kernel, lock, ghost, todo, cpu, recs, tmp, file, trouble>>

Rotate(p) ==
  /\ pc[p] = "rotate"
  /\ IF dir["state"] # NoFile
       THEN /\ dir' = [dir EXCEPT !["prev"] = dir["state"], !["state"] = NoFile]
            /\ crashDirs' = crashDirs \cup {dir'}
       ELSE UNCHANGED fs
  /\ Goto(p, "install")
  /\ UNCHANGED <<kernel, lock, ghost, todo, cpu, recs, tmp, file, trouble>>

Install(p) ==
  /\ pc[p] = "install"
  /\ dir' = [dir EXCEPT !["state"] = tmp[p]]
  /\ crashDirs' = crashDirs \cup {dir'}
  /\ Goto(p, "sync")
  /\ UNCHANGED <<kernel, lock, ghost, todo, cpu, recs, tmp, file, trouble>>

SyncDir(p) ==
  /\ pc[p] = "sync"
  /\ crashDirs' = {dir}
  /\ completed' = tmp[p].ser
  /\ Exit(p)
  /\ UNCHANGED <<kernel, dir, written, damaged, boot>>

-----------------------------------------------------------------------------
(* cmd_restore() and apply_state().                                        *)

StartRestore(p) ==
  /\ Acquire(p)
  /\ Goto(p, "open")
  /\ UNCHANGED <<kernel, fs, ghost, todo, cpu, recs, tmp, file, trouble>>

(* Mutant: give up when state cannot be used.                              *)
TryNextGiveUp(p) ==
  /\ Goto(p, "default")
  /\ todo' = [todo EXCEPT ![p] = {}]
  /\ UNCHANGED <<lock, fs, ghost, cpu, recs, tmp, file>>

(* A file that cannot be used: go on with state.prev, or give up.          *)
TryNext(p) ==
  /\ IF file[p] = "state"
       THEN file' = [file EXCEPT ![p] = "prev"] /\ Goto(p, "open")
       ELSE UNCHANGED file /\ Goto(p, "default")
  /\ todo' = [todo EXCEPT ![p] = {}]
  /\ UNCHANGED <<lock, fs, ghost, cpu, recs, tmp>>

(* A file that is missing, damaged or of another machine.                  *)
OpenUnusable(p) ==
  /\ pc[p] = "open"
  /\ ~Usable(dir[file[p]])
  /\ TryNext(p)
  /\ UNCHANGED <<kernel, trouble>>

OpenUsable(p) ==
  /\ pc[p] = "open"
  /\ Usable(dir[file[p]])
  /\ recs' = [recs EXCEPT ![p] = dir[file[p]].recs]
  /\ todo' = [todo EXCEPT ![p] = online]
  /\ Goto(p, "load")
  /\ UNCHANGED <<kernel, lock, fs, ghost, cpu, tmp, file, trouble>>

LoadFails(p) ==
  /\ trouble' = [trouble EXCEPT ![p] = @ \cup {"failed"}]
  /\ TryNext(p)

LoadSelect(p, c) ==
  /\ pc[p] = "load" /\ c \in todo[p]
  /\ IF c \in online
       THEN /\ selected' = c
            /\ cpu' = [cpu EXCEPT ![p] = c]
            /\ todo' = [todo EXCEPT ![p] = @ \ {c}]
            /\ Goto(p, "write")
            /\ UNCHANGED <<lock, fs, ghost, recs, tmp, file, trouble>>
       ELSE UNCHANGED selected /\ LoadFails(p)
  /\ UNCHANGED <<weights, online, machine>>

(* A CPU without a record of its own gets the mean of all records.         *)
LoadWrite(p) ==
  /\ pc[p] = "write"
  /\ weights' = [weights EXCEPT ![selected] =
       IF cpu[p] \in DOMAIN recs[p] THEN recs[p][cpu[p]] ELSE Mean]
  /\ trouble' = [trouble EXCEPT ![p] = @ \cup {"loaded"}]
  /\ Goto(p, "load")
  /\ UNCHANGED <<selected, online, machine, lock, fs, ghost, todo, cpu, recs, tmp, file>>

LoadRejected(p) ==
  /\ pc[p] = "write"
  /\ LoadFails(p)
  /\ UNCHANGED kernel

Restored(p) ==
  /\ pc[p] = "load" /\ todo[p] = {}
  /\ Exit(p)
  /\ UNCHANGED <<kernel, fs, ghost>>

(* "no saved weights; the built-in default stays"                          *)
DefaultStays(p) ==
  /\ pc[p] = "default"
  /\ Exit(p)
  /\ UNCHANGED <<kernel, fs, ghost>>

-----------------------------------------------------------------------------
(* cmd_reset().                                                            *)

StartReset(p) ==
  /\ Acquire(p)
  /\ Goto(p, "reset")
  /\ UNCHANGED <<kernel, fs, ghost, todo, cpu, recs, tmp, file, trouble>>

Reset(p) ==
  /\ pc[p] = "reset"
  /\ weights' = [c \in CPU |-> Unlearned]
  /\ Exit(p)
  /\ UNCHANGED <<selected, online, machine, fs, ghost>>

-----------------------------------------------------------------------------
(* The environment.                                                        *)

(* Mutant: the cleanup of write_state() removes state, not the temporary   *)
(* file.                                                                   *)
DieUnlinkState(p) ==
  /\ pc[p] # "idle"
  /\ dir' = IF pc[p] = "sync" THEN [dir EXCEPT !["state"] = NoFile] ELSE dir
  /\ crashDirs' = crashDirs \cup {dir'}
  /\ Exit(p)
  /\ UNCHANGED <<kernel, ghost>>

(* A call fails or the process is killed: the kernel releases the lock.    *)
Die(p) ==
  /\ pc[p] # "idle"
  /\ Exit(p)
  /\ UNCHANGED <<kernel, fs, ghost>>

Learn(c) ==
  /\ c \in online
  /\ weights' = [weights EXCEPT ![c] = c]
  /\ UNCHANGED <<selected, online, machine, lock, fs, ghost, local>>

Hotplug(c) ==
  /\ online' \in {online \cup {c}, online \ {c}}
  /\ online' # {}
  /\ UNCHANGED <<weights, selected, machine, lock, fs, ghost, local>>

(* What a crash makes of a file whose data had not reached the disk.       *)
Torn(f) == IF Valid(f) /\ ~f.synced THEN Damaged ELSE f

Crash ==
  /\ \E d \in crashDirs : dir' = [n \in Paths |-> Torn(d[n])]
  /\ crashDirs' = {dir'}
  /\ weights' = [c \in CPU |-> Unlearned]
  /\ selected' = NoCPU
  /\ online' = CPU
  /\ machine' \in Machine
  /\ lock' = NoProc
  /\ pc' = [p \in Proc |-> "idle"]
  /\ todo' = [p \in Proc |-> {}]
  /\ cpu' = [p \in Proc |-> NoCPU]
  /\ recs' = [p \in Proc |-> NoRecords]
  /\ tmp' = [p \in Proc |-> NoFile]
  /\ file' = [p \in Proc |-> "state"]
  /\ trouble' = [p \in Proc |-> {}]
  /\ boot' = ~boot
  /\ UNCHANGED <<written, completed, damaged>>

(* Once, one of the two files becomes unreadable while the other is good.  *)
Damage(n) ==
  /\ MayDamage /\ ~damaged
  /\ \A m \in Paths : Valid(dir[m])
  /\ lock = NoProc
  /\ dir' = [dir EXCEPT ![n] = Damaged]
  /\ crashDirs' = {dir'}
  /\ damaged' = TRUE
  /\ UNCHANGED <<kernel, lock, written, completed, boot, local>>

Work(p) ==
  \/ (\E c \in CPU : DumpSelect(p, c)) \/ DumpRead(p) \/ NothingLearned(p)
  \/ WriteTmp(p) \/ Rotate(p) \/ Install(p) \/ SyncDir(p)
  \/ OpenUnusable(p) \/ OpenUsable(p)
  \/ (\E c \in CPU : LoadSelect(p, c)) \/ LoadWrite(p) \/ LoadRejected(p)
  \/ Restored(p) \/ DefaultStays(p) \/ Reset(p)

Next ==
  \/ \E p \in Proc : StartSave(p) \/ StartRestore(p) \/ StartReset(p) \/ Work(p) \/ Die(p)
  \/ \E c \in CPU : Learn(c) \/ Hotplug(c)
  \/ Crash
  \/ \E n \in Paths : Damage(n)

Spec == Init /\ [][Next]_vars

FairSpec == Spec /\ \A p \in Proc : WF_vars(Work(p))

-----------------------------------------------------------------------------
(* Properties.                                                             *)

(* Selecting a CPU and reading its weights is one operation for everybody  *)
(* else: every record a save holds is of the CPU it is filed under.        *)
OwnRecords(r) == \A c \in DOMAIN r : r[c] \in {c, Mean}

RecordsFiledRight ==
  /\ \A p \in Proc : OwnRecords(recs[p])
  /\ \A n \in Paths : Valid(dir[n]) => OwnRecords(dir[n].recs)
  /\ \A c \in CPU : weights[c] \in {c, Mean, Unlearned}

(* Whenever the machine goes down, a restore finds the snapshot of the     *)
(* last completed save or a newer one.                                     *)
CrashKeepsLastSave ==
  ~damaged => \A d \in crashDirs : Chosen([n \in Paths |-> Torn(d[n])]) >= completed

(* Damage to one of the two files costs the other one only when a save     *)
(* rotates the damaged file over it, and then until that save installs the *)
(* new snapshot: no other step leaves restore without a snapshot.          *)
DamageTolerated ==
  [][completed > 0 /\ Chosen(dir) # 0 /\ Chosen(dir') = 0 =>
       \/ \E p \in Proc : pc[p] = "rotate" /\ dir["state"] = Damaged
       \/ Crash /\ \E d \in crashDirs : d["prev"] = Damaged]_vars

(* "damaged, incompatible or foreign-machine state is ignored and the      *)
(* previous snapshot is tried": restore settles for the default only when  *)
(* neither file is usable, or the kernel refused to load one.              *)
GivesUpOnlyWithoutSnapshot ==
  \A p \in Proc : pc[p] = "default" /\ "failed" \notin trouble[p] =>
    \A n \in Paths : ~Usable(dir[n])

Store == INSTANCE SnapshotStore WITH
  visible <- Chosen(dir), committed <- completed

(* The two files and their renames implement a store that changes in one   *)
(* step.                                                                   *)
StoreSpec == Store!Spec

(* Nobody keeps the lock.                                                  *)
LockReleased == \A p \in Proc : lock = p ~> lock # p
=============================================================================
