---------------------------- MODULE NapCtlProofs ----------------------------
(***************************************************************************)
(* Proofs about NapCtl, for any set of CPUs, processes and machines.       *)
(***************************************************************************)
EXTENDS NapCtl, FiniteSetTheorems, TLAPS

Saving == {"dump", "read"}

Replacing == {"rotate", "install", "sync"}

(* A command runs only under the lock, and starts with fresh locals.       *)
LockHeld ==
  /\ \A p \in Proc : pc[p] # "idle" <=> lock = p
  /\ \A p \in Proc : pc[p] \in {"idle"} \cup Saving => file[p] = "state"

(* Between selecting a CPU and using its weights nobody selects another.   *)
Selected ==
  \A p \in Proc : pc[p] \in {"read", "write"} => selected = cpu[p] /\ selected \in CPU

(* What a save is about to install.                                        *)
NewSnapshot ==
  /\ \A p \in Proc : pc[p] \in Saving => written < MaxSaves
  /\ \A p \in Proc : pc[p] \in Replacing =>
       tmp[p] \in Snapshot /\ tmp[p].ser = written /\ tmp[p].synced

(* No snapshot, wherever it is, holds foreign records.                     *)
OwnEverywhere ==
  /\ \A c \in CPU : weights[c] \in {c, Mean, Unlearned}
  /\ \A p \in Proc : OwnRecords(recs[p])
  /\ \A p \in Proc : pc[p] \in Replacing => OwnRecords(tmp[p].recs)
  /\ \A d \in crashDirs, n \in Paths : Valid(d[n]) => OwnRecords(d[n].recs)

(* Every file that a crash may leave is whole, and older than what the     *)
(* save in progress is about to install.                                   *)
OldFiles ==
  /\ dir \in crashDirs
  /\ \A d \in crashDirs, n \in Paths : Valid(d[n]) => d[n].synced /\ d[n].ser <= written
  /\ \A p \in Proc : pc[p] \in {"rotate", "install"} =>
       \A d \in crashDirs, n \in Paths : Valid(d[n]) => d[n].ser < written

(* Where the save in progress is.                                          *)
Renames ==
  /\ \A p \in Proc : pc[p] = "install" => dir["state"] = NoFile
  /\ \A p \in Proc : pc[p] = "sync" => dir["state"] = tmp[p]

(* Without damage, a crash leaves the snapshot of the last completed save  *)
(* or a later one, and none later than the one visible now.                *)
Bounded ==
  ~damaged =>
    /\ \A d \in crashDirs, n \in Paths : d[n] # Damaged
    /\ \A d \in crashDirs : completed <= Chosen(d) /\ Chosen(d) <= Chosen(dir)

(* What a restore has tried.                                               *)
Tried ==
  \A p \in Proc : "failed" \notin trouble[p] =>
    /\ pc[p] \in {"open", "load", "write"} /\ file[p] = "prev" => ~Usable(dir["state"])
    /\ pc[p] = "default" => \A n \in Paths : ~Usable(dir[n])

(* The inductive invariant: that the lock covers the selection, and which  *)
(* snapshots may be where, is what makes the properties survive each step. *)
IInv ==
  /\ TypeOK /\ LockHeld /\ Selected /\ NewSnapshot
  /\ OwnEverywhere /\ OldFiles /\ Renames /\ Bounded /\ Tried
  /\ damaged => MayDamage

-----------------------------------------------------------------------------
(* Snapshots.                                                              *)

(* No records are records, and nobody's.                                   *)
LEMMA NoRecordsType == NoRecords \in Records /\ OwnRecords(NoRecords)
<1>1. NoRecords \in [{} -> Weights] /\ DOMAIN NoRecords = {}
  BY DEF NoRecords
<1> QED
  BY <1>1 DEF Records, OwnRecords

(* Filing weights under a CPU gives records; its own ones, own records.    *)
LEMMA FiledType ==
  ASSUME NEW r \in Records, NEW c \in CPU, NEW w \in Weights
  PROVE  /\ Filed(r, c, w) \in Records
         /\ Filed(r, c, w) # NoRecords
         /\ OwnRecords(r) /\ w \in {c, Mean} => OwnRecords(Filed(r, c, w))
<1>1. PICK C \in SUBSET CPU : r \in [C -> Weights]
  BY DEF Records
<1>2. Filed(r, c, w) \in [C \cup {c} -> Weights] /\ C \cup {c} \in SUBSET CPU
  BY <1>1 DEF Filed
<1>3. DOMAIN Filed(r, c, w) = C \cup {c}
  BY <1>1 DEF Filed
<1>4. DOMAIN NoRecords = {}
  BY DEF NoRecords
<1>5. ASSUME OwnRecords(r), w \in {c, Mean}
      PROVE  OwnRecords(Filed(r, c, w))
  BY <1>1, <1>5 DEF OwnRecords, Filed
<1> QED
  BY <1>2, <1>3, <1>4, <1>5 DEF Records

(* The invariant holds with an empty directory and an untouched kernel.    *)
LEMMA InitIInv == Init => IInv
<1> SUFFICES ASSUME Init PROVE IInv
  OBVIOUS
<1> USE ConstantsAssumption DEF Init
<1>1. TypeOK
  <2>1. weights \in [CPU -> Weights \cup {Unlearned}]
    OBVIOUS
  <2>2. dir \in [Paths -> Snapshot \cup {NoFile, Damaged}]
    OBVIOUS
  <2>3. /\ todo \in [Proc -> SUBSET CPU] /\ cpu \in [Proc -> CPU \cup {NoCPU}]
        /\ recs \in [Proc -> Records] /\ tmp \in [Proc -> Snapshot \cup {NoFile}]
        /\ file \in [Proc -> Paths] /\ trouble \in [Proc -> SUBSET {"loaded", "failed"}]
    BY NoRecordsType DEF Paths
  <2>4. pc \in [Proc -> {"idle"}]
    OBVIOUS
  <2>5. crashDirs \subseteq [Paths -> Snapshot \cup {NoFile, Damaged}]
    BY <2>2
  <2>6. written \in 0 .. MaxSaves /\ completed \in 0 .. MaxSaves
    OBVIOUS
  <2>7. /\ selected = NoCPU /\ online = CPU /\ machine \in Machine /\ lock = NoProc
        /\ damaged = FALSE /\ boot = FALSE
    OBVIOUS
  <2> HIDE DEF Init
  <2> QED
    BY <2>1, <2>2, <2>3, <2>4, <2>5, <2>6, <2>7 DEF TypeOK
<1>2. OwnEverywhere
  <2>1. \A p \in Proc : OwnRecords(recs[p])
    BY NoRecordsType
  <2>2. \A d \in crashDirs, n \in Paths : ~Valid(d[n])
    BY DEF Valid
  <2> QED
    BY <2>1, <2>2 DEF OwnEverywhere, Replacing
<1>3. OldFiles /\ Bounded
  BY DEF OldFiles, Bounded, Valid, Chosen, Paths
<1> QED
  BY <1>1, <1>2, <1>3 DEF IInv, LockHeld, Selected, NewSnapshot, Renames, Tried, Saving, Replacing

(* A crash leaves one of the directories as it was, for the data of every  *)
(* file in it has reached the disk.                                        *)
LEMMA CrashDir ==
  ASSUME TypeOK, OldFiles, Crash
  PROVE  dir' \in crashDirs /\ crashDirs' = {dir'}
<1>1. PICK d \in crashDirs : dir' = [n \in Paths |-> Torn(d[n])]
  BY DEF Crash
<1>2. d \in [Paths -> Snapshot \cup {NoFile, Damaged}]
  BY DEF TypeOK
<1>3. \A n \in Paths : Torn(d[n]) = d[n]
  BY DEF OldFiles, Torn
<1>4. dir' = d
  BY <1>1, <1>2, <1>3
<1> QED
  BY <1>4 DEF Crash

(* The rename that installs a snapshot makes it the visible one; all that  *)
(* a crash may leave is older.                                             *)
LEMMA InstallBounded ==
  ASSUME IInv, NEW p \in Proc, Install(p)
  PROVE  Bounded'
<1>0. crashDirs' = crashDirs \cup {dir'}
  BY DEF Install
<1>1. dir' = [dir EXCEPT !["state"] = tmp[p]] /\ UNCHANGED <<damaged, completed>>
  BY DEF Install, ghost
<1>2. tmp[p] \in Snapshot /\ tmp[p].ser = written /\ Valid(tmp[p]) /\ written \in Nat
  BY ConstantsAssumption DEF Install, IInv, NewSnapshot, Replacing, Valid, Snapshot
<1>3. dir \in [Paths -> Snapshot \cup {NoFile, Damaged}] /\ completed \in Nat
  BY DEF IInv, TypeOK
<1>4. dir'["state"] = tmp[p] /\ dir'["prev"] = dir["prev"]
  BY <1>1, <1>3 DEF Paths
<1>5. Chosen(dir') = written
  BY <1>2, <1>4 DEF Chosen
<1>6. \A d \in crashDirs : Chosen(d) \in Nat /\ Chosen(d) <= written
  BY <1>2 DEF IInv, TypeOK, OldFiles, Chosen, Snapshot, Paths, Valid
<1>7. CASE damaged
  BY <1>1, <1>7 DEF Bounded
<1>8. CASE ~damaged
  <2>1. \A d \in crashDirs', m \in Paths : d[m] # Damaged
    BY <1>0, <1>2, <1>4, <1>8 DEF IInv, Bounded, OldFiles, Paths, Valid
  <2>2. completed <= written
    BY <1>2, <1>3, <1>6, <1>8 DEF IInv, Bounded, OldFiles
  <2>3. \A d \in crashDirs' : completed <= Chosen(d) /\ Chosen(d) <= Chosen(dir')
    <3>1. \A d \in crashDirs : completed <= Chosen(d)
      BY <1>8 DEF IInv, Bounded
    <3> QED
      BY <1>0, <1>2, <1>3, <1>5, <1>6, <2>2, <3>1
  <2> QED
    BY <1>1, <2>1, <2>3 DEF Bounded
<1> QED
  BY <1>7, <1>8

(* Every action keeps the types.                                           *)
LEMMA NextTypeOK == IInv /\ [Next]_vars => TypeOK'
<1> SUFFICES ASSUME IInv, [Next]_vars PROVE TypeOK'
  OBVIOUS
<1> USE ConstantsAssumption DEF
      IInv, TypeOK, LockHeld, Selected, NewSnapshot, Saving, Replacing, Paths, Snapshot,
      kernel, fs, ghost, local, Goto, Exit
<1>1. ASSUME NEW p \in Proc, StartSave(p) PROVE TypeOK'
  BY NoRecordsType, FiledType, <1>1 DEF StartSave, Acquire
<1>2. ASSUME NEW p \in Proc, StartRestore(p) PROVE TypeOK'
  BY NoRecordsType, FiledType, <1>2 DEF StartRestore, Acquire
<1>3. ASSUME NEW p \in Proc, StartReset(p) PROVE TypeOK'
  BY NoRecordsType, FiledType, <1>3 DEF StartReset, Acquire
<1>4. ASSUME NEW p \in Proc, Die(p) PROVE TypeOK'
  BY NoRecordsType, FiledType, <1>4 DEF Die
<1>5. ASSUME NEW p \in Proc, NEW c \in CPU, DumpSelect(p, c) PROVE TypeOK'
  BY NoRecordsType, FiledType, <1>5 DEF DumpSelect
<1>6. ASSUME NEW p \in Proc, DumpRead(p) PROVE TypeOK'
  BY NoRecordsType, FiledType, <1>6 DEF DumpRead
<1>7. ASSUME NEW p \in Proc, NothingLearned(p) PROVE TypeOK'
  BY NoRecordsType, FiledType, <1>7 DEF NothingLearned
<1>8. ASSUME NEW p \in Proc, WriteTmp(p) PROVE TypeOK'
  BY NoRecordsType, FiledType, <1>8 DEF WriteTmp
<1>9. ASSUME NEW p \in Proc, Rotate(p) PROVE TypeOK'
  <2>1. dir' \in [Paths -> Snapshot \cup {NoFile, Damaged}]
    BY <1>9 DEF Rotate, Paths
  <2>2. crashDirs' \subseteq [Paths -> Snapshot \cup {NoFile, Damaged}]
    BY <1>9, <2>1 DEF Rotate
  <2> QED BY <1>9, <2>1, <2>2 DEF Rotate
<1>10. ASSUME NEW p \in Proc, Install(p) PROVE TypeOK'
  BY NoRecordsType, FiledType, <1>10 DEF Install
<1>11. ASSUME NEW p \in Proc, SyncDir(p) PROVE TypeOK'
  BY NoRecordsType, FiledType, <1>11 DEF SyncDir
<1>12. ASSUME NEW p \in Proc, OpenUnusable(p) PROVE TypeOK'
  BY NoRecordsType, FiledType, <1>12 DEF OpenUnusable, TryNext
<1>13. ASSUME NEW p \in Proc, OpenUsable(p) PROVE TypeOK'
  <2>1. dir[file[p]] \in Snapshot
    BY <1>13 DEF OpenUsable, Usable, Valid
  <2>2. dir[file[p]].recs \in Records
    BY <2>1
  <2> QED
    BY <1>13, <2>2 DEF OpenUsable
<1>14. ASSUME NEW p \in Proc, NEW c \in CPU, LoadSelect(p, c) PROVE TypeOK'
  <2>1. trouble' \in [Proc -> SUBSET {"loaded", "failed"}]
    BY <1>14 DEF LoadSelect, LoadFails
  <2> QED
    BY <1>14, <2>1 DEF LoadSelect, LoadFails, TryNext
<1>15. ASSUME NEW p \in Proc, LoadWrite(p) PROVE TypeOK'
  <2>1. selected \in CPU /\ cpu[p] = selected
    BY <1>15 DEF LoadWrite
  <2>2. cpu[p] \in DOMAIN recs[p] => recs[p][cpu[p]] \in Weights
    BY <2>1 DEF Records
  <2>3. weights' \in [CPU -> Weights \cup {Unlearned}]
    BY <1>15, <2>1, <2>2 DEF LoadWrite, Weights
  <2>4. trouble' \in [Proc -> SUBSET {"loaded", "failed"}]
    BY <1>15 DEF LoadWrite
  <2> QED
    BY <1>15, <2>3, <2>4 DEF LoadWrite
<1>16. ASSUME NEW p \in Proc, LoadRejected(p) PROVE TypeOK'
  <2>1. trouble' \in [Proc -> SUBSET {"loaded", "failed"}]
    BY <1>16 DEF LoadRejected, LoadFails
  <2> QED
    BY <1>16, <2>1 DEF LoadRejected, LoadFails, TryNext
<1>17. ASSUME NEW p \in Proc, Restored(p) PROVE TypeOK'
  BY NoRecordsType, FiledType, <1>17 DEF Restored
<1>18. ASSUME NEW p \in Proc, DefaultStays(p) PROVE TypeOK'
  BY NoRecordsType, FiledType, <1>18 DEF DefaultStays
<1>19. ASSUME NEW p \in Proc, Reset(p) PROVE TypeOK'
  BY NoRecordsType, FiledType, <1>19 DEF Reset
<1>20. ASSUME NEW c \in CPU, Learn(c) PROVE TypeOK'
  <2>1. weights' \in [CPU -> Weights \cup {Unlearned}]
    BY <1>20 DEF Learn, Weights
  <2> QED
    BY <1>20, <2>1 DEF Learn
<1>21. ASSUME NEW c \in CPU, Hotplug(c) PROVE TypeOK'
  BY NoRecordsType, FiledType, <1>21 DEF Hotplug
<1>22. CASE Crash
  <2>1. dir' \in [Paths -> Snapshot \cup {NoFile, Damaged}] /\ crashDirs' = {dir'}
    BY <1>22, CrashDir
  <2>2. weights' \in [CPU -> Weights \cup {Unlearned}]
    BY <1>22 DEF Crash
  <2>3. /\ todo' \in [Proc -> SUBSET CPU] /\ cpu' \in [Proc -> CPU \cup {NoCPU}]
        /\ tmp' \in [Proc -> Snapshot \cup {NoFile}] /\ file' \in [Proc -> Paths]
        /\ trouble' \in [Proc -> SUBSET {"loaded", "failed"}]
    BY <1>22 DEF Crash
  <2>4. recs' \in [Proc -> Records]
    BY <1>22, NoRecordsType DEF Crash
  <2>5. pc' \in [Proc -> {"idle"}]
    BY <1>22 DEF Crash
  <2> QED
    BY <1>22, <2>1, <2>2, <2>3, <2>4, <2>5 DEF Crash
<1>23. ASSUME NEW n \in Paths, Damage(n) PROVE TypeOK'
  BY NoRecordsType, FiledType, <1>23 DEF Damage
<1>24. CASE UNCHANGED vars
  BY <1>24 DEF vars
<1> QED
  BY <1>1, <1>2, <1>3, <1>4, <1>5, <1>6, <1>7, <1>8, <1>9, <1>10, <1>11, <1>12,
     <1>13, <1>14, <1>15, <1>16, <1>17, <1>18, <1>19, <1>20, <1>21, <1>22, <1>23, <1>24
     DEF Next, Work

(* The lock and the selection of a CPU belong to one process.              *)
LEMMA NextLock == IInv /\ [Next]_vars => (LockHeld /\ Selected)'
<1> SUFFICES ASSUME IInv, [Next]_vars PROVE (LockHeld /\ Selected)'
  OBVIOUS
<1> USE ConstantsAssumption DEF
      IInv, TypeOK, LockHeld, Selected, Saving, kernel, fs, ghost, local, Goto, Exit
<1>1. ASSUME NEW p \in Proc, StartSave(p) PROVE (LockHeld /\ Selected)'
  BY <1>1 DEF StartSave, Acquire
<1>2. ASSUME NEW p \in Proc, StartRestore(p) PROVE (LockHeld /\ Selected)'
  BY <1>2 DEF StartRestore, Acquire
<1>3. ASSUME NEW p \in Proc, StartReset(p) PROVE (LockHeld /\ Selected)'
  BY <1>3 DEF StartReset, Acquire
<1>4. ASSUME NEW p \in Proc, Die(p) PROVE (LockHeld /\ Selected)'
  BY <1>4 DEF Die
<1>5. ASSUME NEW p \in Proc, NEW c \in CPU, DumpSelect(p, c) PROVE (LockHeld /\ Selected)'
  BY <1>5 DEF DumpSelect
<1>6. ASSUME NEW p \in Proc, DumpRead(p) PROVE (LockHeld /\ Selected)'
  BY <1>6 DEF DumpRead
<1>7. ASSUME NEW p \in Proc, NothingLearned(p) PROVE (LockHeld /\ Selected)'
  BY <1>7 DEF NothingLearned
<1>8. ASSUME NEW p \in Proc, WriteTmp(p) PROVE (LockHeld /\ Selected)'
  BY <1>8 DEF WriteTmp
<1>9. ASSUME NEW p \in Proc, Rotate(p) PROVE (LockHeld /\ Selected)'
  BY <1>9 DEF Rotate
<1>10. ASSUME NEW p \in Proc, Install(p) PROVE (LockHeld /\ Selected)'
  BY <1>10 DEF Install
<1>11. ASSUME NEW p \in Proc, SyncDir(p) PROVE (LockHeld /\ Selected)'
  BY <1>11 DEF SyncDir
<1>12. ASSUME NEW p \in Proc, OpenUnusable(p) PROVE (LockHeld /\ Selected)'
  BY <1>12 DEF OpenUnusable, TryNext
<1>13. ASSUME NEW p \in Proc, OpenUsable(p) PROVE (LockHeld /\ Selected)'
  BY <1>13 DEF OpenUsable
<1>14. ASSUME NEW p \in Proc, NEW c \in CPU, LoadSelect(p, c) PROVE (LockHeld /\ Selected)'
  BY <1>14 DEF LoadSelect, LoadFails, TryNext
<1>15. ASSUME NEW p \in Proc, LoadWrite(p) PROVE (LockHeld /\ Selected)'
  BY <1>15 DEF LoadWrite
<1>16. ASSUME NEW p \in Proc, LoadRejected(p) PROVE (LockHeld /\ Selected)'
  BY <1>16 DEF LoadRejected, LoadFails, TryNext
<1>17. ASSUME NEW p \in Proc, Restored(p) PROVE (LockHeld /\ Selected)'
  BY <1>17 DEF Restored
<1>18. ASSUME NEW p \in Proc, DefaultStays(p) PROVE (LockHeld /\ Selected)'
  BY <1>18 DEF DefaultStays
<1>19. ASSUME NEW p \in Proc, Reset(p) PROVE (LockHeld /\ Selected)'
  BY <1>19 DEF Reset
<1>20. ASSUME NEW c \in CPU, Learn(c) PROVE (LockHeld /\ Selected)'
  BY <1>20 DEF Learn
<1>21. ASSUME NEW c \in CPU, Hotplug(c) PROVE (LockHeld /\ Selected)'
  BY <1>21 DEF Hotplug
<1>22. CASE Crash
  BY <1>22 DEF Crash
<1>23. ASSUME NEW n \in Paths, Damage(n) PROVE (LockHeld /\ Selected)'
  BY <1>23 DEF Damage
<1>24. CASE UNCHANGED vars
  BY <1>24 DEF vars
<1> QED
  BY <1>1, <1>2, <1>3, <1>4, <1>5, <1>6, <1>7, <1>8, <1>9, <1>10, <1>11, <1>12,
     <1>13, <1>14, <1>15, <1>16, <1>17, <1>18, <1>19, <1>20, <1>21, <1>22, <1>23, <1>24
     DEF Next, Work

(* A save writes a new number in a synced file.                            *)
LEMMA NextNewSnapshot == IInv /\ [Next]_vars => NewSnapshot'
<1> SUFFICES ASSUME IInv, [Next]_vars PROVE NewSnapshot'
  OBVIOUS
<1> USE ConstantsAssumption DEF
      IInv, TypeOK, LockHeld, NewSnapshot, Saving, Replacing, Snapshot, kernel, fs, ghost,
      local, Goto, Exit
<1>1. ASSUME NEW p \in Proc, StartSave(p) PROVE NewSnapshot'
  BY <1>1 DEF StartSave, Acquire
<1>2. ASSUME NEW p \in Proc, StartRestore(p) PROVE NewSnapshot'
  BY <1>2 DEF StartRestore, Acquire
<1>3. ASSUME NEW p \in Proc, StartReset(p) PROVE NewSnapshot'
  BY <1>3 DEF StartReset, Acquire
<1>4. ASSUME NEW p \in Proc, Die(p) PROVE NewSnapshot'
  BY <1>4 DEF Die
<1>5. ASSUME NEW p \in Proc, NEW c \in CPU, DumpSelect(p, c) PROVE NewSnapshot'
  BY <1>5 DEF DumpSelect
<1>6. ASSUME NEW p \in Proc, DumpRead(p) PROVE NewSnapshot'
  BY <1>6 DEF DumpRead
<1>7. ASSUME NEW p \in Proc, NothingLearned(p) PROVE NewSnapshot'
  BY <1>7 DEF NothingLearned
<1>8. ASSUME NEW p \in Proc, WriteTmp(p) PROVE NewSnapshot'
  BY <1>8 DEF WriteTmp
<1>9. ASSUME NEW p \in Proc, Rotate(p) PROVE NewSnapshot'
  BY <1>9 DEF Rotate
<1>10. ASSUME NEW p \in Proc, Install(p) PROVE NewSnapshot'
  BY <1>10 DEF Install
<1>11. ASSUME NEW p \in Proc, SyncDir(p) PROVE NewSnapshot'
  BY <1>11 DEF SyncDir
<1>12. ASSUME NEW p \in Proc, OpenUnusable(p) PROVE NewSnapshot'
  BY <1>12 DEF OpenUnusable, TryNext
<1>13. ASSUME NEW p \in Proc, OpenUsable(p) PROVE NewSnapshot'
  BY <1>13 DEF OpenUsable
<1>14. ASSUME NEW p \in Proc, NEW c \in CPU, LoadSelect(p, c) PROVE NewSnapshot'
  BY <1>14 DEF LoadSelect, LoadFails, TryNext
<1>15. ASSUME NEW p \in Proc, LoadWrite(p) PROVE NewSnapshot'
  BY <1>15 DEF LoadWrite
<1>16. ASSUME NEW p \in Proc, LoadRejected(p) PROVE NewSnapshot'
  BY <1>16 DEF LoadRejected, LoadFails, TryNext
<1>17. ASSUME NEW p \in Proc, Restored(p) PROVE NewSnapshot'
  BY <1>17 DEF Restored
<1>18. ASSUME NEW p \in Proc, DefaultStays(p) PROVE NewSnapshot'
  BY <1>18 DEF DefaultStays
<1>19. ASSUME NEW p \in Proc, Reset(p) PROVE NewSnapshot'
  BY <1>19 DEF Reset
<1>20. ASSUME NEW c \in CPU, Learn(c) PROVE NewSnapshot'
  BY <1>20 DEF Learn
<1>21. ASSUME NEW c \in CPU, Hotplug(c) PROVE NewSnapshot'
  BY <1>21 DEF Hotplug
<1>22. CASE Crash
  BY <1>22 DEF Crash
<1>23. ASSUME NEW n \in Paths, Damage(n) PROVE NewSnapshot'
  BY <1>23 DEF Damage
<1>24. CASE UNCHANGED vars
  BY <1>24 DEF vars
<1> QED
  BY <1>1, <1>2, <1>3, <1>4, <1>5, <1>6, <1>7, <1>8, <1>9, <1>10, <1>11, <1>12,
     <1>13, <1>14, <1>15, <1>16, <1>17, <1>18, <1>19, <1>20, <1>21, <1>22, <1>23, <1>24
     DEF Next, Work

(* Records are only copied to where they belong.                           *)
LEMMA NextOwn == IInv /\ [Next]_vars => OwnEverywhere'
<1> SUFFICES ASSUME IInv, [Next]_vars PROVE OwnEverywhere'
  OBVIOUS
<1>0. dir \in crashDirs
  BY DEF IInv, OldFiles
<1> USE ConstantsAssumption DEF
      IInv, TypeOK, LockHeld, Selected, OwnEverywhere, Replacing, kernel, fs, ghost,
      local, Goto, Exit
<1>1. ASSUME NEW p \in Proc, StartSave(p) PROVE OwnEverywhere'
  BY NoRecordsType, FiledType, <1>1 DEF StartSave, Acquire
<1>2. ASSUME NEW p \in Proc, StartRestore(p) PROVE OwnEverywhere'
  BY NoRecordsType, FiledType, <1>2 DEF StartRestore, Acquire
<1>3. ASSUME NEW p \in Proc, StartReset(p) PROVE OwnEverywhere'
  BY NoRecordsType, FiledType, <1>3 DEF StartReset, Acquire
<1>4. ASSUME NEW p \in Proc, Die(p) PROVE OwnEverywhere'
  BY NoRecordsType, FiledType, <1>4 DEF Die
<1>5. ASSUME NEW p \in Proc, NEW c \in CPU, DumpSelect(p, c) PROVE OwnEverywhere'
  BY NoRecordsType, FiledType, <1>5 DEF DumpSelect
<1>6. ASSUME NEW p \in Proc, DumpRead(p) PROVE OwnEverywhere'
  BY NoRecordsType, FiledType, <1>6 DEF DumpRead
<1>7. ASSUME NEW p \in Proc, NothingLearned(p) PROVE OwnEverywhere'
  BY NoRecordsType, FiledType, <1>7 DEF NothingLearned
<1>8. ASSUME NEW p \in Proc, WriteTmp(p) PROVE OwnEverywhere'
  BY NoRecordsType, FiledType, <1>8 DEF WriteTmp
<1>9. ASSUME NEW p \in Proc, Rotate(p) PROVE OwnEverywhere'
  <2>1. \A m \in Paths : dir'[m] \in {dir["state"], dir["prev"], NoFile}
    BY <1>9 DEF Rotate, Paths
  <2>2. \A m \in Paths : Valid(dir'[m]) => OwnRecords(dir'[m].recs)
    BY <2>1, <1>0 DEF Paths, Valid
  <2>3. crashDirs' \subseteq crashDirs \cup {dir'}
    BY <1>9 DEF Rotate
  <2> QED
    BY <1>9, <2>2, <2>3 DEF Rotate
<1>10. ASSUME NEW p \in Proc, Install(p) PROVE OwnEverywhere'
  <2>1. \A m \in Paths : Valid(dir'[m]) => OwnRecords(dir'[m].recs)
    BY <1>10, <1>0 DEF Install
  <2> QED
    BY <1>10, <2>1 DEF Install
<1>11. ASSUME NEW p \in Proc, SyncDir(p) PROVE OwnEverywhere'
  <2>1. crashDirs' = {dir} /\ dir \in crashDirs
    BY <1>11, <1>0 DEF SyncDir
  <2>2. \A q \in Proc : OwnRecords(recs'[q])
    BY <1>11, NoRecordsType DEF SyncDir
  <2>3. \A q \in Proc : pc'[q] \in Replacing => OwnRecords(tmp'[q].recs)
    BY <1>11 DEF SyncDir
  <2> QED
    BY <1>11, <2>1, <2>2, <2>3 DEF SyncDir
<1>12. ASSUME NEW p \in Proc, OpenUnusable(p) PROVE OwnEverywhere'
  BY NoRecordsType, FiledType, <1>12 DEF OpenUnusable, TryNext
<1>13. ASSUME NEW p \in Proc, OpenUsable(p) PROVE OwnEverywhere'
  <2>1. OwnRecords(dir[file[p]].recs)
    BY <1>13, <1>0 DEF OpenUsable, Usable
  <2>2. \A q \in Proc : OwnRecords(recs'[q])
    BY <1>13, <2>1 DEF OpenUsable
  <2> QED
    BY <1>13, <2>2 DEF OpenUsable
<1>14. ASSUME NEW p \in Proc, NEW c \in CPU, LoadSelect(p, c) PROVE OwnEverywhere'
  <2>1. UNCHANGED recs
    BY <1>14 DEF LoadSelect, LoadFails, TryNext
  <2>2. \A q \in Proc : pc'[q] \in Replacing => pc[q] \in Replacing /\ tmp'[q] = tmp[q]
    BY <1>14 DEF LoadSelect, LoadFails, TryNext
  <2>3. UNCHANGED <<weights, crashDirs>>
    BY <1>14 DEF LoadSelect, LoadFails, TryNext
  <2> QED
    BY <2>1, <2>2, <2>3
<1>15. ASSUME NEW p \in Proc, LoadWrite(p) PROVE OwnEverywhere'
  <2>1. selected \in CPU /\ cpu[p] = selected
    BY <1>15 DEF LoadWrite
  <2>2. cpu[p] \in DOMAIN recs[p] => recs[p][cpu[p]] \in {cpu[p], Mean}
    BY DEF OwnRecords
  <2>3. \A c \in CPU : weights'[c] \in {c, Mean, Unlearned}
    BY <1>15, <2>1, <2>2 DEF LoadWrite
  <2> QED
    BY <1>15, <2>3 DEF LoadWrite
<1>16. ASSUME NEW p \in Proc, LoadRejected(p) PROVE OwnEverywhere'
  BY NoRecordsType, FiledType, <1>16 DEF LoadRejected, LoadFails, TryNext
<1>17. ASSUME NEW p \in Proc, Restored(p) PROVE OwnEverywhere'
  BY NoRecordsType, FiledType, <1>17 DEF Restored
<1>18. ASSUME NEW p \in Proc, DefaultStays(p) PROVE OwnEverywhere'
  BY NoRecordsType, FiledType, <1>18 DEF DefaultStays
<1>19. ASSUME NEW p \in Proc, Reset(p) PROVE OwnEverywhere'
  BY NoRecordsType, FiledType, <1>19 DEF Reset
<1>20. ASSUME NEW c \in CPU, Learn(c) PROVE OwnEverywhere'
  BY NoRecordsType, FiledType, <1>20 DEF Learn
<1>21. ASSUME NEW c \in CPU, Hotplug(c) PROVE OwnEverywhere'
  BY NoRecordsType, FiledType, <1>21 DEF Hotplug
<1>22. CASE Crash
  <2>1. dir' \in crashDirs /\ crashDirs' = {dir'}
    BY <1>22, CrashDir
  <2>2. \A q \in Proc : OwnRecords(recs'[q])
    BY <1>22, NoRecordsType DEF Crash
  <2>3. \A c \in CPU : weights'[c] = Unlearned
    BY <1>22 DEF Crash
  <2>4. \A q \in Proc : pc'[q] \notin Replacing
    BY <1>22 DEF Crash
  <2> QED
    BY <2>1, <2>2, <2>3, <2>4
<1>23. ASSUME NEW n \in Paths, Damage(n) PROVE OwnEverywhere'
  <2>1. \A m \in Paths : Valid(dir'[m]) => dir'[m] = dir[m]
    BY <1>23 DEF Damage, Valid
  <2>2. \A m \in Paths : Valid(dir'[m]) => OwnRecords(dir'[m].recs)
    BY <2>1, <1>0
  <2> QED
    BY <1>23, <2>2 DEF Damage
<1>24. CASE UNCHANGED vars
  BY <1>24 DEF vars
<1> QED
  BY <1>1, <1>2, <1>3, <1>4, <1>5, <1>6, <1>7, <1>8, <1>9, <1>10, <1>11, <1>12,
     <1>13, <1>14, <1>15, <1>16, <1>17, <1>18, <1>19, <1>20, <1>21, <1>22, <1>23, <1>24
     DEF Next, Work

(* Renames keep older files, and only whole ones.                          *)
LEMMA NextOldFiles == IInv /\ [Next]_vars => (OldFiles /\ Renames)'
<1> SUFFICES ASSUME IInv, [Next]_vars PROVE (OldFiles /\ Renames)'
  OBVIOUS
<1> USE ConstantsAssumption DEF
      IInv, TypeOK, LockHeld, NewSnapshot, OldFiles, Renames, Replacing, Valid, Paths,
      kernel, fs, ghost, local, Goto, Exit
<1>1. ASSUME NEW p \in Proc, StartSave(p) PROVE (OldFiles /\ Renames)'
  BY <1>1 DEF StartSave, Acquire
<1>2. ASSUME NEW p \in Proc, StartRestore(p) PROVE (OldFiles /\ Renames)'
  BY <1>2 DEF StartRestore, Acquire
<1>3. ASSUME NEW p \in Proc, StartReset(p) PROVE (OldFiles /\ Renames)'
  BY <1>3 DEF StartReset, Acquire
<1>4. ASSUME NEW p \in Proc, Die(p) PROVE (OldFiles /\ Renames)'
  BY <1>4 DEF Die
<1>5. ASSUME NEW p \in Proc, NEW c \in CPU, DumpSelect(p, c) PROVE (OldFiles /\ Renames)'
  BY <1>5 DEF DumpSelect
<1>6. ASSUME NEW p \in Proc, DumpRead(p) PROVE (OldFiles /\ Renames)'
  BY <1>6 DEF DumpRead
<1>7. ASSUME NEW p \in Proc, NothingLearned(p) PROVE (OldFiles /\ Renames)'
  BY <1>7 DEF NothingLearned
<1>8. ASSUME NEW p \in Proc, WriteTmp(p) PROVE (OldFiles /\ Renames)'
  <2>1. \A d \in crashDirs, n \in Paths : Valid(d[n]) => d[n] \in Snapshot /\ d[n].ser <= written
    OBVIOUS
  <2>2. \A d \in crashDirs, n \in Paths : Valid(d[n]) => d[n].ser < written + 1
    BY <2>1 DEF Snapshot
  <2>3. \A q \in Proc : q # p => pc'[q] = "idle"
    BY <1>8 DEF WriteTmp
  <2>4. UNCHANGED fs /\ written' = written + 1 /\ pc'[p] = "rotate"
    BY <1>8 DEF WriteTmp
  <2>5. \A d \in crashDirs, n \in Paths : Valid(d[n]) => d[n].ser <= written + 1
    BY <2>1 DEF Snapshot
  <2> QED
    BY <2>2, <2>3, <2>4, <2>5
<1>9. ASSUME NEW p \in Proc, Rotate(p) PROVE (OldFiles /\ Renames)'
  BY <1>9 DEF Rotate
<1>10. ASSUME NEW p \in Proc, Install(p) PROVE (OldFiles /\ Renames)'
  BY <1>10 DEF Install
<1>11. ASSUME NEW p \in Proc, SyncDir(p) PROVE (OldFiles /\ Renames)'
  BY <1>11 DEF SyncDir
<1>12. ASSUME NEW p \in Proc, OpenUnusable(p) PROVE (OldFiles /\ Renames)'
  BY <1>12 DEF OpenUnusable, TryNext
<1>13. ASSUME NEW p \in Proc, OpenUsable(p) PROVE (OldFiles /\ Renames)'
  BY <1>13 DEF OpenUsable
<1>14. ASSUME NEW p \in Proc, NEW c \in CPU, LoadSelect(p, c) PROVE (OldFiles /\ Renames)'
  BY <1>14 DEF LoadSelect, LoadFails, TryNext
<1>15. ASSUME NEW p \in Proc, LoadWrite(p) PROVE (OldFiles /\ Renames)'
  BY <1>15 DEF LoadWrite
<1>16. ASSUME NEW p \in Proc, LoadRejected(p) PROVE (OldFiles /\ Renames)'
  BY <1>16 DEF LoadRejected, LoadFails, TryNext
<1>17. ASSUME NEW p \in Proc, Restored(p) PROVE (OldFiles /\ Renames)'
  BY <1>17 DEF Restored
<1>18. ASSUME NEW p \in Proc, DefaultStays(p) PROVE (OldFiles /\ Renames)'
  BY <1>18 DEF DefaultStays
<1>19. ASSUME NEW p \in Proc, Reset(p) PROVE (OldFiles /\ Renames)'
  BY <1>19 DEF Reset
<1>20. ASSUME NEW c \in CPU, Learn(c) PROVE (OldFiles /\ Renames)'
  BY <1>20 DEF Learn
<1>21. ASSUME NEW c \in CPU, Hotplug(c) PROVE (OldFiles /\ Renames)'
  BY <1>21 DEF Hotplug
<1>22. CASE Crash
  <2>1. dir' \in crashDirs /\ crashDirs' = {dir'} /\ written' = written
    BY <1>22, CrashDir DEF Crash
  <2>2. \A q \in Proc : pc'[q] = "idle"
    BY <1>22 DEF Crash
  <2> QED
    BY <2>1, <2>2
<1>23. ASSUME NEW n \in Paths, Damage(n) PROVE (OldFiles /\ Renames)'
  BY <1>23 DEF Damage
<1>24. CASE UNCHANGED vars
  BY <1>24 DEF vars
<1> QED
  BY <1>1, <1>2, <1>3, <1>4, <1>5, <1>6, <1>7, <1>8, <1>9, <1>10, <1>11, <1>12,
     <1>13, <1>14, <1>15, <1>16, <1>17, <1>18, <1>19, <1>20, <1>21, <1>22, <1>23, <1>24
     DEF Next, Work

(* What a crash leaves stays between completed and visible.                *)
LEMMA NextBounded == IInv /\ [Next]_vars => Bounded'
<1> SUFFICES ASSUME IInv, [Next]_vars PROVE Bounded'
  OBVIOUS
<1> USE ConstantsAssumption DEF
      IInv, TypeOK, LockHeld, NewSnapshot, OldFiles, Renames, Bounded, Replacing, Valid,
      Paths, kernel, fs, ghost, local, Goto, Exit
<1>1. ASSUME NEW p \in Proc, StartSave(p) PROVE Bounded'
  BY <1>1 DEF StartSave, Acquire
<1>2. ASSUME NEW p \in Proc, StartRestore(p) PROVE Bounded'
  BY <1>2 DEF StartRestore, Acquire
<1>3. ASSUME NEW p \in Proc, StartReset(p) PROVE Bounded'
  BY <1>3 DEF StartReset, Acquire
<1>4. ASSUME NEW p \in Proc, Die(p) PROVE Bounded'
  BY <1>4 DEF Die
<1>5. ASSUME NEW p \in Proc, NEW c \in CPU, DumpSelect(p, c) PROVE Bounded'
  BY <1>5 DEF DumpSelect
<1>6. ASSUME NEW p \in Proc, DumpRead(p) PROVE Bounded'
  BY <1>6 DEF DumpRead
<1>7. ASSUME NEW p \in Proc, NothingLearned(p) PROVE Bounded'
  BY <1>7 DEF NothingLearned
<1>8. ASSUME NEW p \in Proc, WriteTmp(p) PROVE Bounded'
  BY <1>8 DEF WriteTmp
<1>9. ASSUME NEW p \in Proc, Rotate(p) PROVE Bounded'
  BY <1>9 DEF Rotate, Chosen
<1>10. ASSUME NEW p \in Proc, Install(p) PROVE Bounded'
  BY <1>10, InstallBounded
<1>11. ASSUME NEW p \in Proc, SyncDir(p) PROVE Bounded'
  BY <1>11 DEF SyncDir, Chosen
<1>12. ASSUME NEW p \in Proc, OpenUnusable(p) PROVE Bounded'
  BY <1>12 DEF OpenUnusable, TryNext
<1>13. ASSUME NEW p \in Proc, OpenUsable(p) PROVE Bounded'
  BY <1>13 DEF OpenUsable
<1>14. ASSUME NEW p \in Proc, NEW c \in CPU, LoadSelect(p, c) PROVE Bounded'
  BY <1>14 DEF LoadSelect, LoadFails, TryNext
<1>15. ASSUME NEW p \in Proc, LoadWrite(p) PROVE Bounded'
  BY <1>15 DEF LoadWrite
<1>16. ASSUME NEW p \in Proc, LoadRejected(p) PROVE Bounded'
  BY <1>16 DEF LoadRejected, LoadFails, TryNext
<1>17. ASSUME NEW p \in Proc, Restored(p) PROVE Bounded'
  BY <1>17 DEF Restored
<1>18. ASSUME NEW p \in Proc, DefaultStays(p) PROVE Bounded'
  BY <1>18 DEF DefaultStays
<1>19. ASSUME NEW p \in Proc, Reset(p) PROVE Bounded'
  BY <1>19 DEF Reset
<1>20. ASSUME NEW c \in CPU, Learn(c) PROVE Bounded'
  BY <1>20 DEF Learn
<1>21. ASSUME NEW c \in CPU, Hotplug(c) PROVE Bounded'
  BY <1>21 DEF Hotplug
<1>22. CASE Crash
  <2>1. dir' \in crashDirs /\ crashDirs' = {dir'} /\ UNCHANGED <<completed, damaged>>
    BY <1>22, CrashDir DEF Crash
  <2>2. Chosen(dir') \in Nat
    BY <2>1 DEF Chosen, Snapshot
  <2> QED
    BY <2>1, <2>2
<1>23. ASSUME NEW n \in Paths, Damage(n) PROVE Bounded'
  BY <1>23 DEF Damage, Chosen
<1>24. CASE UNCHANGED vars
  BY <1>24 DEF vars
<1> QED
  BY <1>1, <1>2, <1>3, <1>4, <1>5, <1>6, <1>7, <1>8, <1>9, <1>10, <1>11, <1>12,
     <1>13, <1>14, <1>15, <1>16, <1>17, <1>18, <1>19, <1>20, <1>21, <1>22, <1>23, <1>24
     DEF Next, Work

(* A restore tries both files.                                             *)
LEMMA NextTried == IInv /\ [Next]_vars => Tried'
<1> SUFFICES ASSUME IInv, [Next]_vars PROVE Tried'
  OBVIOUS
<1> USE ConstantsAssumption DEF
      IInv, TypeOK, LockHeld, Tried, Usable, Valid, Paths, kernel, fs, ghost, local, Goto,
      Exit
<1>1. ASSUME NEW p \in Proc, StartSave(p) PROVE Tried'
  BY <1>1 DEF StartSave, Acquire
<1>2. ASSUME NEW p \in Proc, StartRestore(p) PROVE Tried'
  BY <1>2 DEF StartRestore, Acquire
<1>3. ASSUME NEW p \in Proc, StartReset(p) PROVE Tried'
  BY <1>3 DEF StartReset, Acquire
<1>4. ASSUME NEW p \in Proc, Die(p) PROVE Tried'
  BY <1>4 DEF Die
<1>5. ASSUME NEW p \in Proc, NEW c \in CPU, DumpSelect(p, c) PROVE Tried'
  BY <1>5 DEF DumpSelect
<1>6. ASSUME NEW p \in Proc, DumpRead(p) PROVE Tried'
  BY <1>6 DEF DumpRead
<1>7. ASSUME NEW p \in Proc, NothingLearned(p) PROVE Tried'
  BY <1>7 DEF NothingLearned
<1>8. ASSUME NEW p \in Proc, WriteTmp(p) PROVE Tried'
  BY <1>8 DEF WriteTmp
<1>9. ASSUME NEW p \in Proc, Rotate(p) PROVE Tried'
  BY <1>9 DEF Rotate
<1>10. ASSUME NEW p \in Proc, Install(p) PROVE Tried'
  BY <1>10 DEF Install
<1>11. ASSUME NEW p \in Proc, SyncDir(p) PROVE Tried'
  BY <1>11 DEF SyncDir
<1>12. ASSUME NEW p \in Proc, OpenUnusable(p) PROVE Tried'
  BY <1>12 DEF OpenUnusable, TryNext
<1>13. ASSUME NEW p \in Proc, OpenUsable(p) PROVE Tried'
  BY <1>13 DEF OpenUsable
<1>14. ASSUME NEW p \in Proc, NEW c \in CPU, LoadSelect(p, c) PROVE Tried'
  BY <1>14 DEF LoadSelect, LoadFails, TryNext
<1>15. ASSUME NEW p \in Proc, LoadWrite(p) PROVE Tried'
  BY <1>15 DEF LoadWrite
<1>16. ASSUME NEW p \in Proc, LoadRejected(p) PROVE Tried'
  BY <1>16 DEF LoadRejected, LoadFails, TryNext
<1>17. ASSUME NEW p \in Proc, Restored(p) PROVE Tried'
  BY <1>17 DEF Restored
<1>18. ASSUME NEW p \in Proc, DefaultStays(p) PROVE Tried'
  BY <1>18 DEF DefaultStays
<1>19. ASSUME NEW p \in Proc, Reset(p) PROVE Tried'
  BY <1>19 DEF Reset
<1>20. ASSUME NEW c \in CPU, Learn(c) PROVE Tried'
  BY <1>20 DEF Learn
<1>21. ASSUME NEW c \in CPU, Hotplug(c) PROVE Tried'
  BY <1>21 DEF Hotplug
<1>22. CASE Crash
  BY <1>22 DEF Crash
<1>23. ASSUME NEW n \in Paths, Damage(n) PROVE Tried'
  BY <1>23 DEF Damage
<1>24. CASE UNCHANGED vars
  BY <1>24 DEF vars
<1> QED
  BY <1>1, <1>2, <1>3, <1>4, <1>5, <1>6, <1>7, <1>8, <1>9, <1>10, <1>11, <1>12,
     <1>13, <1>14, <1>15, <1>16, <1>17, <1>18, <1>19, <1>20, <1>21, <1>22, <1>23, <1>24
     DEF Next, Work

(* Every command, crash and damage preserves the inductive invariant.      *)
LEMMA NextIInv == IInv /\ [Next]_vars => IInv'
<1> SUFFICES ASSUME IInv, [Next]_vars PROVE IInv'
  OBVIOUS
<1>1. (damaged => MayDamage)'
  BY DEF IInv, Next, Work, StartSave, StartRestore, StartReset, Die, DumpSelect, DumpRead,
     NothingLearned, WriteTmp, Rotate, Install, SyncDir, OpenUnusable, OpenUsable, LoadSelect,
     LoadFails, TryNext, LoadWrite, LoadRejected, Restored, DefaultStays, Reset, Learn, Hotplug,
     Crash, Damage, vars, ghost
<1> QED
  BY <1>1, NextTypeOK, NextLock, NextNewSnapshot, NextOwn, NextOldFiles, NextBounded, NextTried
     DEF IInv

(* The inductive invariant holds in every reachable state.                 *)
LEMMA SpecIInv == Spec => []IInv
BY InitIInv, NextIInv, PTL DEF Spec

(* Every variable keeps its type.                                          *)
THEOREM TypeCorrect == Spec => []TypeOK
<1>1. IInv => TypeOK
  BY DEF IInv
<1> QED
  BY <1>1, SpecIInv, PTL

(* However many processes save, restore and reset while CPUs come and go,  *)
(* no CPU ever gets, in a file or in the kernel, the weights of another.   *)
THEOREM RecordsRight == Spec => []RecordsFiledRight
<1>1. IInv => RecordsFiledRight
  BY DEF IInv, OwnEverywhere, OldFiles, RecordsFiledRight
<1> QED
  BY <1>1, SpecIInv, PTL

(* A restore after a crash at any point finds the snapshot of the last     *)
(* completed save or a newer one.                                          *)
THEOREM CrashSafe == Spec => []CrashKeepsLastSave
<1>1. ASSUME IInv, ~damaged, NEW d \in crashDirs
      PROVE  Chosen([n \in Paths |-> Torn(d[n])]) >= completed
  <2>1. d \in [Paths -> Snapshot \cup {NoFile, Damaged}]
    BY <1>1 DEF IInv, TypeOK
  <2>2. \A n \in Paths : Torn(d[n]) = d[n]
    BY <1>1 DEF IInv, OldFiles, Torn
  <2>3. [n \in Paths |-> Torn(d[n])] = d
    BY <2>1, <2>2
  <2>4. completed <= Chosen(d)
    BY <1>1 DEF IInv, Bounded
  <2>5. Chosen(d) \in Nat /\ completed \in Nat
    BY <1>1, <2>1, ConstantsAssumption DEF IInv, TypeOK, Chosen, Snapshot, Paths, Valid
  <2> QED
    BY <2>3, <2>4, <2>5
<1>2. IInv => CrashKeepsLastSave
  BY <1>1 DEF CrashKeepsLastSave
<1> QED
  BY <1>2, SpecIInv, PTL

(* Restore reports that it found nothing to load only when neither file    *)
(* is usable, unless the kernel refused one.                               *)
THEOREM BothFilesTried == Spec => []GivesUpOnlyWithoutSnapshot
<1>1. IInv => GivesUpOnlyWithoutSnapshot
  BY DEF IInv, Tried, GivesUpOnlyWithoutSnapshot
<1> QED
  BY <1>1, SpecIInv, PTL

-----------------------------------------------------------------------------
(* The files implement the store.                                          *)

(* The empty directory is the empty store.                                 *)
LEMMA InitStore == Init => Store!Init
<1> SUFFICES ASSUME Init PROVE Store!Init
  OBVIOUS
<1>1. dir["state"] = NoFile /\ dir["prev"] = NoFile
  BY DEF Init, Paths
<1>2. Chosen(dir) = 0
  BY <1>1 DEF Chosen, Valid
<1> QED
  BY <1>2 DEF Init, Store!Init

(* Without damage, the second rename is the write, the fsync of the        *)
(* directory the commit, and the rotation leaves the visible snapshot.     *)
LEMMA NextStore ==
  ASSUME IInv, IInv', ~MayDamage, [Next]_vars
  PROVE  [Store!Next]_(Store!vars)
<1>1. ~damaged /\ ~damaged'
  BY DEF IInv
<1>2. /\ dir \in [Paths -> Snapshot \cup {NoFile, Damaged}]
      /\ Chosen(dir) \in Nat /\ completed \in Nat
  BY ConstantsAssumption DEF IInv, TypeOK, Chosen, Snapshot, Paths, Valid
<1>3. ASSUME NEW p \in Proc, Rotate(p) PROVE UNCHANGED <<Chosen(dir), completed, boot>>
  <2>1. dir["state"] # Damaged
    BY <1>1 DEF IInv, Bounded, OldFiles, Paths
  <2>2. UNCHANGED dir \/ (/\ Valid(dir["state"])
                          /\ dir'["state"] = NoFile /\ dir'["prev"] = dir["state"])
    BY <1>2, <1>3, <2>1 DEF Rotate, Valid, fs, Paths
  <2>3. UNCHANGED Chosen(dir)
    BY <2>2 DEF Chosen, Valid
  <2> QED
    BY <1>3, <2>3 DEF Rotate, ghost
<1>4. ASSUME NEW p \in Proc, Install(p) PROVE Store!Write
  <2>1. tmp[p] \in Snapshot /\ tmp[p].ser = written /\ Valid(tmp[p]) /\ written \in Nat
    BY <1>4, ConstantsAssumption DEF Install, IInv, NewSnapshot, Replacing, Valid, Snapshot
  <2>2. dir'["state"] = tmp[p]
    BY <1>2, <1>4 DEF Install, Paths
  <2>3. Chosen(dir') = written
    BY <2>1, <2>2 DEF Chosen
  <2>4. Chosen(dir) < written
    BY <1>4, <2>1 DEF Install, IInv, TypeOK, NewSnapshot, OldFiles, Chosen, Snapshot, Paths, Valid
  <2>5. UNCHANGED <<completed, boot>>
    BY <1>4 DEF Install, ghost
  <2> QED
    BY <2>1, <2>3, <2>4, <2>5 DEF Store!Write
<1>5. ASSUME NEW p \in Proc, SyncDir(p) PROVE Store!Commit
  <2>1. dir["state"] = tmp[p] /\ tmp[p] \in Snapshot
    BY <1>5 DEF SyncDir, IInv, Renames, NewSnapshot, Replacing
  <2>2. Chosen(dir) = tmp[p].ser
    BY <2>1, ConstantsAssumption DEF Chosen, Valid
  <2> QED
    BY <1>5, <2>2 DEF SyncDir, Store!Commit
<1>6. CASE Crash
  <2>1. dir' \in crashDirs
    BY <1>6, CrashDir DEF IInv
  <2>2. completed <= Chosen(dir') /\ Chosen(dir') <= Chosen(dir)
    BY <1>1, <2>1 DEF IInv, Bounded
  <2>3. Chosen(dir') \in Nat
    BY <2>1 DEF IInv, TypeOK, Chosen, Snapshot, Paths, Valid
  <2>4. UNCHANGED completed
    BY <1>6 DEF Crash
  <2>5. boot' = ~boot
    BY <1>6 DEF Crash
  <2>6. Chosen(dir)' = Chosen(dir')
    BY DEF Chosen, Valid
  <2>7. Store!Crash
    BY <1>2, <2>2, <2>3, <2>4, <2>5, <2>6 DEF Store!Crash
  <2> QED
    BY <2>7 DEF Store!Next
<1>7. CASE UNCHANGED <<dir, completed, boot>>
  BY <1>7 DEF Store!vars
<1> QED
  BY <1>1, <1>3, <1>4, <1>5, <1>6, <1>7 DEF Store!Next, Store!vars, Next, Work, StartSave,
     StartRestore, StartReset, Die, DumpSelect, DumpRead, NothingLearned, WriteTmp,
     OpenUnusable, OpenUsable, LoadSelect, LoadFails, TryNext, LoadWrite, LoadRejected,
     Restored, DefaultStays, Reset, Learn, Hotplug, Damage, vars, fs, ghost

(* As long as no file is damaged, saving, crashing and starting again is   *)
(* indistinguishable, for a restore, from a store that replaces its        *)
(* snapshot in one step and loses no completed save.                       *)
THEOREM FilesImplementStore == Spec /\ ~MayDamage => StoreSpec
<1> SUFFICES ASSUME ~MayDamage PROVE Spec => StoreSpec
  OBVIOUS
<1>1. IInv /\ IInv' /\ [Next]_vars => [Store!Next]_(Store!vars)
  BY NextStore
<1> QED
  BY <1>1, InitStore, SpecIInv, PTL DEF Spec, StoreSpec, Store!Spec

-----------------------------------------------------------------------------
(* Damage.                                                                 *)

(* Once a file was damaged, a directory that a crash may leave either has  *)
(* a snapshot, or a save rotated the damaged file over it.                 *)
AfterDamage ==
  damaged => \A d \in crashDirs : Chosen(d) # 0 \/ d["prev"] = Damaged

(* A directory with a snapshot in either place has one to restore.         *)
LEMMA SnapshotChosen ==
  ASSUME NEW d \in [Paths -> Snapshot \cup {NoFile, Damaged}], NEW n \in Paths, Valid(d[n])
  PROVE  Chosen(d) # 0
<1>1. \A m \in Paths : Valid(d[m]) => d[m] \in Snapshot
  BY DEF Valid
<1>2. \A f \in Snapshot : f.ser # 0
  BY ConstantsAssumption DEF Snapshot
<1> QED
  BY <1>1, <1>2 DEF Chosen, Paths

(* The steps that touch the files.                                         *)
LEMMA FileSteps ==
  ASSUME [Next]_vars
  PROVE  \/ UNCHANGED <<fs, damaged>>
         \/ (\E p \in Proc : Rotate(p) \/ Install(p) \/ SyncDir(p))
         \/ Crash
         \/ (\E n \in Paths : Damage(n))
BY DEF Next, Work, vars, kernel, fs, ghost, local, StartSave, StartRestore, StartReset, Die,
   DumpSelect, DumpRead, NothingLearned, WriteTmp, OpenUnusable, OpenUsable, TryNext, LoadSelect,
   LoadFails, LoadWrite, LoadRejected, Restored, DefaultStays, Reset, Learn, Hotplug

(* What a rename leaves.                                                   *)
LEMMA RenamedDir ==
  ASSUME IInv, NEW p \in Proc, Rotate(p) \/ Install(p)
  PROVE  \/ UNCHANGED fs
         \/ /\ crashDirs' = crashDirs \cup {dir'}
            /\ \/ Chosen(dir') # 0
               \/ Rotate(p) /\ dir["state"] = Damaged /\ dir'["prev"] = Damaged
<1>1. dir \in [Paths -> Snapshot \cup {NoFile, Damaged}]
  BY DEF IInv, TypeOK
<1>2. CASE Rotate(p) /\ dir["state"] = NoFile
  BY <1>2 DEF Rotate
<1>3. CASE Rotate(p) /\ dir["state"] # NoFile
  <2>1. /\ dir' = [dir EXCEPT !["prev"] = dir["state"], !["state"] = NoFile]
        /\ crashDirs' = crashDirs \cup {dir'}
    BY <1>3 DEF Rotate
  <2>2. dir'["prev"] = dir["state"] /\ dir' \in [Paths -> Snapshot \cup {NoFile, Damaged}]
    BY <1>1, <2>1 DEF Paths
  <2>3. dir["state"] # Damaged => Chosen(dir') # 0
    BY <1>3, <2>2, SnapshotChosen DEF Valid, Paths
  <2> QED
    BY <1>3, <2>1, <2>2, <2>3
<1>4. CASE Install(p)
  <2>1. /\ dir' = [dir EXCEPT !["state"] = tmp[p]] /\ crashDirs' = crashDirs \cup {dir'}
        /\ tmp[p] \in Snapshot
    BY <1>4 DEF Install, IInv, NewSnapshot, Replacing
  <2>2. /\ dir'["state"] = tmp[p] /\ Valid(tmp[p])
        /\ dir' \in [Paths -> Snapshot \cup {NoFile, Damaged}]
    BY <1>1, <2>1, ConstantsAssumption DEF Paths, Valid
  <2> QED
    BY <2>1, <2>2, SnapshotChosen DEF Paths
<1> QED
  BY <1>2, <1>3, <1>4

(* When a file is damaged, the other one is good.                          *)
LEMMA DamagedDir ==
  ASSUME IInv, NEW n \in Paths, Damage(n)
  PROVE  Chosen(dir') # 0 /\ crashDirs' = {dir'}
<1>1. /\ dir \in [Paths -> Snapshot \cup {NoFile, Damaged}]
      /\ dir' = [dir EXCEPT ![n] = Damaged] /\ crashDirs' = {dir'}
      /\ \A m \in Paths : Valid(dir[m])
  BY DEF IInv, TypeOK, Damage
<1>2. PICK m \in Paths : m # n
  BY DEF Paths
<1>3. dir'[m] = dir[m] /\ dir' \in [Paths -> Snapshot \cup {NoFile, Damaged}]
  BY <1>1, <1>2
<1> QED
  BY <1>1, <1>3, SnapshotChosen

LEMMA AfterDamageStep == IInv /\ AfterDamage /\ [Next]_vars => AfterDamage'
<1> SUFFICES ASSUME IInv, AfterDamage, [Next]_vars PROVE AfterDamage'
  OBVIOUS
<1>1. CASE UNCHANGED <<fs, damaged>>
  BY <1>1 DEF AfterDamage, fs
<1>2. ASSUME NEW p \in Proc, Rotate(p) \/ Install(p) PROVE AfterDamage'
  <2>1. damaged' = damaged
    BY <1>2 DEF Rotate, Install, ghost
  <2> QED
    BY <1>2, <2>1, RenamedDir DEF AfterDamage, fs
<1>3. ASSUME NEW p \in Proc, SyncDir(p) PROVE AfterDamage'
  BY <1>3 DEF SyncDir, AfterDamage, IInv, OldFiles
<1>4. CASE Crash
  <2>1. damaged' = damaged /\ dir' \in crashDirs /\ crashDirs' = {dir'}
    BY <1>4, CrashDir DEF IInv, Crash
  <2> QED
    BY <2>1 DEF AfterDamage
<1>5. ASSUME NEW n \in Paths, Damage(n) PROVE AfterDamage'
  BY <1>5, DamagedDir DEF AfterDamage
<1> QED
  BY <1>1, <1>2, <1>3, <1>4, <1>5, FileSteps

LEMMA DamageKept == Spec => []AfterDamage
<1>1. Init => AfterDamage
  BY DEF Init, AfterDamage
<1> QED
  BY <1>1, AfterDamageStep, SpecIInv, PTL DEF Spec

(* Damage to one file costs restore the other one only in the save that    *)
(* rotates the damaged file over it, or in a crash before that save is on  *)
(* the disk.                                                               *)
THEOREM DamageContained == Spec => DamageTolerated
<1>1. IInv /\ AfterDamage /\ [Next]_vars =>
        [completed > 0 /\ Chosen(dir) # 0 /\ Chosen(dir') = 0 =>
           \/ \E p \in Proc : pc[p] = "rotate" /\ dir["state"] = Damaged
           \/ Crash /\ \E d \in crashDirs : d["prev"] = Damaged]_vars
  <2> SUFFICES ASSUME IInv, AfterDamage, [Next]_vars,
                      completed > 0, Chosen(dir) # 0, Chosen(dir') = 0
               PROVE  \/ \E p \in Proc : pc[p] = "rotate" /\ dir["state"] = Damaged
                      \/ Crash /\ \E d \in crashDirs : d["prev"] = Damaged
    OBVIOUS
  <2>1. ASSUME NEW p \in Proc, Rotate(p) \/ Install(p)
        PROVE  pc[p] = "rotate" /\ dir["state"] = Damaged
    BY <2>1, RenamedDir DEF fs, Rotate
  <2>2. CASE Crash
    <3>1. dir' \in crashDirs
      BY <2>2, CrashDir DEF IInv
    <3>2. CASE damaged
      BY <2>2, <3>1, <3>2 DEF AfterDamage
    <3>3. CASE ~damaged
      <4>1. completed <= 0 /\ completed \in Nat
        BY <3>1, <3>3 DEF IInv, Bounded, TypeOK
      <4> QED
        BY <4>1
    <3> QED
      BY <3>2, <3>3
  <2>3. ~(\E n \in Paths : Damage(n))
    BY DamagedDir
  <2>4. ~(dir' = dir)
    OBVIOUS
  <2>5. (\E p \in Proc : SyncDir(p)) => dir' = dir
    BY DEF SyncDir
  <2> QED
    BY <2>1, <2>2, <2>3, <2>4, <2>5, FileSteps DEF fs
<1> QED
  BY <1>1, SpecIInv, DamageKept, PTL DEF Spec, DamageTolerated

-----------------------------------------------------------------------------
(* How long a command keeps the lock.                                      *)

(* The parts of a save, of a restore, which tries two files, and of a      *)
(* reset; and the CPUs left, each of which takes two steps.                *)
PartOf(l, f) ==
  CASE l \in {"dump", "read", "reset"}            -> 1
    [] l = "rotate"                               -> 2
    [] l = "install"                              -> 3
    [] l = "sync"                                 -> 4
    [] l = "open" /\ f = "state"                  -> 1
    [] l \in {"load", "write"} /\ f = "state"     -> 2
    [] l = "open" /\ f = "prev"                   -> 3
    [] l \in {"load", "write"} /\ f = "prev"      -> 4
    [] l = "default"                              -> 5
    [] l = "idle"                                 -> 6

LEMMA Parts ==
  \A f \in Paths :
    /\ PartOf("dump", f) = 1 /\ PartOf("read", f) = 1 /\ PartOf("reset", f) = 1
    /\ PartOf("rotate", f) = 2 /\ PartOf("install", f) = 3 /\ PartOf("sync", f) = 4
    /\ PartOf("open", f) = IF f = "state" THEN 1 ELSE 3
    /\ PartOf("load", f) = IF f = "state" THEN 2 ELSE 4
    /\ PartOf("write", f) = PartOf("load", f)
    /\ PartOf("default", f) = 5
BY DEF PartOf, Paths

Part(p) == PartOf(pc[p], file[p])

Extra(l) == IF l \in {"read", "write"} THEN 1 ELSE 0

Rest(p) == 2 * Cardinality(todo[p]) + Extra(pc[p])

Nearer(p) ==
  \/ pc'[p] = "idle" /\ lock' # p
  \/ Part(p) < Part(p)'
  \/ Part(p) = Part(p)' /\ Rest(p)' < Rest(p)

\* Every step of the holder brings it nearer to its end, and no other step
\* takes it back.
ReleasesLock ==
  [][\A p \in Proc : lock = p =>
       /\ Work(p) => Nearer(p)
       /\ ~Work(p) => lock' # p \/ (Part(p)' = Part(p) /\ Rest(p)' = Rest(p))]_vars

LEMMA CPUsFinite ==
  ASSUME TypeOK, NEW p \in Proc
  PROVE  /\ IsFiniteSet(todo[p]) /\ Cardinality(todo[p]) \in Nat /\ Rest(p) \in Nat
         /\ \A c \in todo[p] : Cardinality(todo[p] \ {c}) = Cardinality(todo[p]) - 1
<1>1. todo[p] \in SUBSET CPU
  BY DEF TypeOK
<1>2. IsFiniteSet(todo[p]) /\ Cardinality(todo[p]) \in Nat
  BY <1>1, CPUsAssumption, FS_Subset, FS_CardinalityType
<1> QED BY <1>2, FS_RemoveElement DEF Rest, Extra

LEMMA ExitNearer ==
  ASSUME IInv, NEW p \in Proc, lock = p, Exit(p)
  PROVE  Nearer(p)
BY ConstantsAssumption DEF Exit, Goto, IInv, TypeOK, Nearer

(* A file that cannot be used.                                             *)
LEMMA TryNextNearer ==
  ASSUME IInv, NEW p \in Proc, TryNext(p), pc[p] \in {"open", "load", "write"}
  PROVE  Nearer(p)
<1>1. file[p] \in Paths /\ (\A l : [pc EXCEPT ![p] = l][p] = l) /\ file \in [Proc -> Paths]
  BY DEF IInv, TypeOK
<1>2. CASE file[p] = "state"
  <2>1. file'[p] = "prev" /\ pc'[p] = "open"
    BY <1>1, <1>2 DEF TryNext, Goto
  <2> QED BY <1>2, <2>1, Parts DEF Nearer, Part, Paths
<1>3. CASE file[p] = "prev"
  <2>1. file'[p] = "prev" /\ pc'[p] = "default"
    BY <1>1, <1>3 DEF TryNext, Goto
  <2> QED BY <1>3, <2>1, Parts DEF Nearer, Part, Paths
<1> QED BY <1>1, <1>2, <1>3 DEF Paths

(* A step through the CPUs.                                                *)
LEMMA CPUStep ==
  ASSUME IInv, NEW p \in Proc, NEW c \in CPU, DumpSelect(p, c) \/ LoadSelect(p, c)
  PROVE  Nearer(p)
<1>1. /\ Cardinality(todo[p]) \in Nat /\ file[p] \in Paths
      /\ \A d \in todo[p] : Cardinality(todo[p] \ {d}) = Cardinality(todo[p]) - 1
      /\ \A l : [pc EXCEPT ![p] = l][p] = l
      /\ todo \in [Proc -> SUBSET CPU]
  BY CPUsFinite DEF IInv, TypeOK
<1>2. CASE DumpSelect(p, c)
  <2>1. /\ pc[p] = "dump" /\ pc'[p] \in {"dump", "read"} /\ file' = file
        /\ todo'[p] = todo[p] \ {c} /\ c \in todo[p]
    BY <1>1, <1>2 DEF DumpSelect, Goto
  <2>2. Rest(p)' < Rest(p)
    BY <1>1, <2>1 DEF Rest, Extra
  <2>3. Part(p) = Part(p)'
    BY <1>1, <2>1, Parts DEF Part
  <2> QED BY <2>2, <2>3 DEF Nearer
<1>3. CASE LoadSelect(p, c) /\ c \in online
  <2>1. /\ pc[p] = "load" /\ pc'[p] = "write" /\ file' = file
        /\ todo'[p] = todo[p] \ {c} /\ c \in todo[p]
    BY <1>1, <1>3 DEF LoadSelect, Goto
  <2>2. Rest(p)' < Rest(p)
    BY <1>1, <2>1 DEF Rest, Extra
  <2>3. Part(p) = Part(p)'
    BY <1>1, <2>1, Parts DEF Part
  <2> QED BY <2>2, <2>3 DEF Nearer
<1>4. CASE LoadSelect(p, c) /\ c \notin online
  BY <1>4, TryNextNearer DEF LoadSelect, LoadFails
<1> QED BY <1>2, <1>3, <1>4

LEMMA WorkNearer ==
  ASSUME IInv, NEW p \in Proc, lock = p, Work(p)
  PROVE  Nearer(p)
<1>1. /\ Cardinality(todo[p]) \in Nat /\ file[p] \in Paths
      /\ \A l : [pc EXCEPT ![p] = l][p] = l
      /\ todo \in [Proc -> SUBSET CPU]
  BY CPUsFinite DEF IInv, TypeOK
<1>2. CASE DumpRead(p) \/ LoadWrite(p)
  <2>1. /\ \/ pc[p] = "read" /\ pc'[p] = "dump"
           \/ pc[p] = "write" /\ pc'[p] = "load"
        /\ file' = file /\ todo' = todo
    BY <1>1, <1>2 DEF DumpRead, LoadWrite, Goto
  <2>2. Rest(p)' < Rest(p) /\ Part(p) = Part(p)'
    BY <1>1, <2>1, Parts DEF Rest, Extra, Part
  <2> QED BY <2>2 DEF Nearer
<1>3. CASE WriteTmp(p) \/ Rotate(p) \/ Install(p) \/ OpenUsable(p)
  <2>1. /\ \/ pc[p] = "dump" /\ pc'[p] = "rotate"
           \/ pc[p] = "rotate" /\ pc'[p] = "install"
           \/ pc[p] = "install" /\ pc'[p] = "sync"
           \/ pc[p] = "open" /\ pc'[p] = "load"
        /\ file' = file
    BY <1>1, <1>3 DEF WriteTmp, Rotate, Install, OpenUsable, Goto
  <2>2. Part(p) < Part(p)'
    BY <1>1, <2>1, Parts DEF Part
  <2> QED BY <2>2 DEF Nearer
<1>4. CASE NothingLearned(p) \/ SyncDir(p) \/ Restored(p) \/ DefaultStays(p) \/ Reset(p)
  BY <1>4, ExitNearer DEF NothingLearned, SyncDir, Restored, DefaultStays, Reset
<1>5. CASE OpenUnusable(p) \/ LoadRejected(p)
  BY <1>5, TryNextNearer DEF OpenUnusable, LoadRejected, LoadFails
<1>6. CASE \E c \in CPU : DumpSelect(p, c) \/ LoadSelect(p, c)
  BY <1>6, CPUStep
<1> QED BY <1>2, <1>3, <1>4, <1>5, <1>6 DEF Work

(* What others do, and the death of the holder.                            *)
LEMMA OthersKeep ==
  ASSUME IInv, NEW p \in Proc, lock = p, [Next]_vars, ~Work(p)
  PROVE  lock' # p \/ UNCHANGED <<pc[p], todo[p], file[p]>>
<1>1. \A q \in Proc : q # p => pc[q] = "idle"
  BY DEF IInv, LockHeld
<1>2. ASSUME NEW q \in Proc, StartSave(q) \/ StartRestore(q) \/ StartReset(q) PROVE FALSE
  BY <1>2, ConstantsAssumption DEF StartSave, StartRestore, StartReset, Acquire
<1>3. ASSUME NEW q \in Proc, q # p, Work(q) \/ Die(q) PROVE FALSE
  BY <1>1, <1>3 DEF Work, Die, DumpSelect, DumpRead, NothingLearned, WriteTmp, Rotate, Install,
     SyncDir, OpenUnusable, OpenUsable, LoadSelect, LoadWrite, LoadRejected, Restored,
     DefaultStays, Reset
<1>4. CASE Die(p) \/ Crash
  BY <1>4, ConstantsAssumption DEF Die, Exit, Crash
<1>5. ASSUME NEW c \in CPU, Learn(c) \/ Hotplug(c) PROVE UNCHANGED local
  BY <1>5 DEF Learn, Hotplug
<1>6. ASSUME NEW n \in Paths, Damage(n) PROVE UNCHANGED local
  BY <1>6 DEF Damage
<1>7. CASE UNCHANGED vars
  BY <1>7 DEF vars, local
<1> QED BY <1>2, <1>3, <1>4, <1>5, <1>6, <1>7 DEF Next, local

(* No command keeps the lock for ever, on any number of CPUs, whatever the *)
(* kernel refuses and however CPUs come and go: each of its steps brings   *)
(* it to a later part, or leaves less to do for the CPUs of this one.      *)
(* LockReleased is this and the fairness of FairSpec.                      *)
THEOREM CommandsEnd == Spec => [](\A p \in Proc : Rest(p) \in Nat) /\ ReleasesLock
<1>1. IInv /\ [Next]_vars =>
        [\A p \in Proc : lock = p =>
           /\ Work(p) => Nearer(p)
           /\ ~Work(p) => lock' # p \/ (Part(p)' = Part(p) /\ Rest(p)' = Rest(p))]_vars
  BY WorkNearer, OthersKeep DEF Part, Rest
<1>2. IInv => \A p \in Proc : Rest(p) \in Nat
  BY CPUsFinite DEF IInv
<1> QED BY <1>1, <1>2, SpecIInv, PTL DEF Spec, ReleasesLock
=============================================================================
