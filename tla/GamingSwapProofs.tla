-------------------------- MODULE GamingSwapProofs --------------------------
(***************************************************************************)
(* Proofs about GamingSwap, for any set of files and any amounts of RAM,   *)
(* and about a run in which nothing fails any more (GamingSwapRetry).      *)
(***************************************************************************)
EXTENDS GamingSwapRetry, FiniteSetTheorems, TLAPS

BeforeDrain == {"prepare", "format", "swapon"}

(* The run has chosen a managed file, and until it is active knows what it *)
(* found active at the start.                                              *)
Chosen ==
  /\ pc \notin {"idle", "prepare"} => target \in Managed
  /\ pc = "format" => created /\ sig[target] = "unsigned"
  /\ pc = "swapon" => sig[target] = "swap" /\ size[target] = ram
  /\ pc \in BeforeDrain => wasActive \subseteq active

(* No step works on the target as if it were an old swap.                  *)
TargetSpared ==
  /\ pc \in {"drain", "units", "delete", "unlink"} => target \notin todo
  /\ pc = "unlink" => victim \in todo

Listed == BeforeDrain \cup Draining

FstabWritten == Draining \ {"list", "drain", "fstab"}

(* The files a run deletes carry a swap signature and have left fstab.     *)
Retired ==
  /\ pc \in Listed => \A f \in files : sig[f] = "swap"
  /\ pc \in FstabWritten => \A f \in files : f \in fstab => f = target
  /\ pc \in {"delete", "unlink"} => \A f \in todo : sig[f] = "swap" /\ f \notin fstab

(* A managed file is entered in fstab only when it can be activated.       *)
FstabUsable ==
  /\ \A f \in Managed : f \in fstab => sig[f] = "swap"
  /\ pc \in {"format", "swapon"} /\ created => target \notin fstab

Unmasked == {"enable", "start", "check"} \cup Deleting

(* How far persist() has come.                                             *)
Persisted ==
  /\ pc \in FstabWritten \cup Deleting => target \in fstab
  /\ pc \in (FstabWritten \ {"zram"}) \cup Deleting => "modprobe" \in policy
  /\ pc \in (FstabWritten \ {"zram", "tmpfiles"}) \cup Deleting => "tmpfiles" \in policy
  /\ pc \in Unmasked => target \notin masked
  /\ pc \in {"start", "check"} \cup Deleting => "service" \in policy

(* The inductive invariant: DeletesOnlyRetiredSwap and NextBootReady speak *)
(* of the end of a run and are not inductive without what the calls before *)
(* have established.                                                       *)
IInv ==
  TypeOK /\ Chosen /\ ReplacementFirst /\ TargetSpared /\ Retired /\ FstabUsable /\ Persisted

-----------------------------------------------------------------------------
(* prepare() chooses one of the managed names.                            *)
LEMMA ManagedNameType == TypeOK => ManagedName \in Managed
BY DEF TypeOK, ManagedName, Managed

(* The locals of no run have the types of a run's locals.                  *)
LEMMA NoRunType == NoFile \notin Name /\ [u \in {} |-> NoFile] \in UnitMap
<1>1. [u \in {} |-> NoFile] \in [{} -> Name]
  OBVIOUS
<1> QED
  BY <1>1, NamesAssumption DEF UnitMap

(* An inventory finds paths and existing files only.                       *)
LEMMA ReportedUnitsType ==
  ASSUME TypeOK, NEW units \in ReportedUnits
  PROVE  units \in UnitMap
<1>1. ListedUnits \subseteq Name
  BY DEF TypeOK, ListedUnits
<1>2. [u \in ListedUnits |-> u] \in UnitMap
  BY <1>1 DEF UnitMap
<1>3. ASSUME NEW v \in loaded \cap Managed, NEW w \in {f \in Name : Exists(f)}
      PROVE  StaleUnits(v, w) \in UnitMap
  <2>1. ListedUnits \cup {v} \in SUBSET Name
    BY <1>1 DEF Name
  <2>2. StaleUnits(v, w) \in [ListedUnits \cup {v} -> Name]
    BY <2>1 DEF StaleUnits
  <2> QED
    BY <2>1, <2>2 DEF UnitMap
<1> QED
  BY <1>2, <1>3 DEF ReportedUnits

(* The machine before the first migration satisfies the invariant.         *)
LEMMA InitIInv == Init => IInv
<1> SUFFICES ASSUME Init PROVE IInv
  OBVIOUS
<1> USE DEF Init
<1>1. TypeOK
  <2>1. size \in [Name -> Sizes \cup {0}]
    OBVIOUS
  <2>2. sig \in [Name -> {"absent", "unsigned", "swap"}]
    OBVIOUS
  <2>3. active \subseteq Device /\ loaded \subseteq Name
    BY DEF BootFiles, BootUnits, Device, Name
  <2> QED
    BY <2>1, <2>2, <2>3, NoRunType DEF TypeOK, Name, Device, Policies, PC
<1>2. FstabUsable
  BY NamesAssumption DEF FstabUsable
<1> QED
  BY <1>1, <1>2 DEF IInv, Chosen, ReplacementFirst, TargetSpared, Retired, Persisted,
     BeforeDrain, Listed, Draining, Deleting, FstabWritten, Unmasked

(* Every call of a run, every failure and every reboot preserves it.       *)
LEMMA NextIInv == IInv /\ [Next]_vars => IInv'
<1> SUFFICES ASSUME IInv, [Next]_vars PROVE IInv'
  OBVIOUS
<1>1. CASE Inventory
  <2>1. PICK units \in ReportedUnits :
          /\ \A f \in Candidates(units) : sig[f] # "unsigned"
          /\ fileUnits' = units
          /\ files' = {f \in Candidates(units) : Exists(f)}
    BY <1>1 DEF Inventory
  <2>2. fileUnits' \in UnitMap
    BY <2>1, ReportedUnitsType DEF IInv
  <2>3. files' \subseteq Name /\ \A f \in files' : sig[f] = "swap"
    BY <2>1 DEF Candidates, Exists, IInv, TypeOK
  <2> HIDE DEF UnitMap
  <2>4. TypeOK'
    BY <1>1, <2>2, <2>3 DEF IInv, TypeOK, Inventory, PC, Device, disk, boot, live
  <2> QED
    BY <1>1, <2>3, <2>4 DEF Inventory, IInv, Chosen, ReplacementFirst, TargetSpared, Retired,
       FstabUsable, Persisted, BeforeDrain, Draining, Deleting, Listed, FstabWritten, Unmasked,
       disk, boot, live
<1>2. CASE Reuse
  <2>1. ManagedName \in Managed
    BY ManagedNameType DEF IInv
  <2>2. TypeOK'
    BY <1>2, <2>1 DEF Reuse, IInv, TypeOK, PC, Name, disk, boot, live
  <2> QED
    BY <1>2, <2>1, <2>2 DEF Reuse, IInv, Chosen, ReplacementFirst, TargetSpared, Retired,
       FstabUsable, Persisted, BeforeDrain, Draining, Deleting, Listed, FstabWritten, Unmasked,
       disk, boot, live
<1>3. CASE Create
  <2>1. ManagedName \in Managed /\ ManagedName \in Name
    BY ManagedNameType DEF IInv, Name
  <2>2. sig[ManagedName] = "absent" /\ ManagedName \notin fstab /\ ManagedName \notin files
    BY <1>3, <2>1 DEF Create, Exists, IInv, FstabUsable, Retired, Listed, BeforeDrain
  <2>3. TypeOK'
    BY <1>3, <2>1 DEF Create, IInv, TypeOK, PC, boot, live
  <2>4. sig'[ManagedName] = "unsigned" /\ \A f \in Name \ {ManagedName} : sig'[f] = sig[f]
    BY <1>3, <2>1 DEF Create, IInv, TypeOK
  <2>5. Chosen' /\ ReplacementFirst' /\ TargetSpared' /\ Persisted'
    BY <1>3, <2>1, <2>4 DEF Create, IInv, Chosen, ReplacementFirst, TargetSpared, Persisted,
       BeforeDrain, Draining, Deleting, FstabWritten, Unmasked, boot, live
  <2>6. Retired'
    BY <1>3, <2>2, <2>4 DEF Create, IInv, TypeOK, Retired, BeforeDrain, Listed, Draining,
       FstabWritten
  <2>7. FstabUsable'
    BY <1>3, <2>2, <2>4 DEF Create, IInv, FstabUsable, Name, boot
  <2> QED
    BY <2>3, <2>5, <2>6, <2>7 DEF IInv
<1>4. CASE MaskTmpfiles
  <2>1. Disabled \subseteq Device /\ target \notin Disabled
    BY DEF Disabled, IInv, TypeOK, UnitMap, Device
  <2>2. [u \in {} |-> NoFile] \in UnitMap
    BY NoRunType
  <2>3. TypeOK'
    BY <1>4, <2>1, <2>2 DEF MaskTmpfiles, IInv, TypeOK, PC, Policies, disk, live
  <2> QED
    BY <1>4, <2>1, <2>3 DEF MaskTmpfiles, IInv, Chosen, ReplacementFirst, TargetSpared,
       Retired, FstabUsable, Persisted, BeforeDrain, Draining, Deleting, Listed, FstabWritten,
       Unmasked, disk, live
<1> USE DEF IInv, TypeOK, Chosen, ReplacementFirst, TargetSpared, Retired, FstabUsable, Persisted,
           NoRun, BeforeDrain, Draining, Deleting, Listed, FstabWritten, Unmasked,
           Device, PC, Policies, Name, disk, boot, live, local
<1>5. CASE Format
  BY <1>5 DEF Format
<1>6. CASE SwapOn
  BY <1>6 DEF SwapOn
<1>7. CASE ListSwaps
  BY <1>7 DEF ListSwaps
<1>8. ASSUME NEW d \in Device, SwapOff(d) PROVE IInv'
  BY <1>8 DEF SwapOff
<1>9. CASE Drained
  BY <1>9 DEF Drained
<1>10. CASE RewriteFstab
  BY <1>10 DEF RewriteFstab
<1>11. CASE DisableZram
  BY <1>11 DEF DisableZram
<1>12. ASSUME NEW u \in Device, MaskUnit(u) PROVE IInv'
  BY <1>12 DEF MaskUnit
<1>13. ASSUME NEW u \in Device, RenameUnit(u) PROVE IInv'
  BY <1>13 DEF RenameUnit
<1>14. CASE UnitsMasked
  BY <1>14 DEF UnitsMasked
<1>15. CASE WriteCmdline
  BY <1>15 DEF WriteCmdline
<1>16. CASE UnmaskTarget
  BY <1>16 DEF UnmaskTarget
<1>17. CASE EnableService
  BY <1>17 DEF EnableService, BootUnits
<1>18. CASE StartTarget
  BY <1>18 DEF StartTarget
<1>19. CASE CheckTarget
  BY <1>19 DEF CheckTarget
<1>20. ASSUME NEW f \in Name, CheckInactive(f) PROVE IInv'
  BY <1>20 DEF CheckInactive
<1>21. CASE Unlink
  <2>1. victim \in todo /\ victim # target /\ victim \notin fstab
    BY <1>21 DEF Unlink
  <2>2. target \in Name => sig'[target] = sig[target] /\ size'[target] = size[target]
    BY <1>21, <2>1 DEF Unlink
  <2>3. TypeOK'
    BY <1>21 DEF Unlink
  <2>4. Chosen' /\ ReplacementFirst' /\ TargetSpared'
    BY <1>21, <2>1, <2>2 DEF Unlink
  <2>5. Retired' /\ FstabUsable' /\ Persisted'
    BY <1>21, <2>1 DEF Unlink
  <2> QED
    BY <2>3, <2>4, <2>5
<1>22. CASE Deleted
  BY <1>22 DEF Deleted
<1>23. CASE Runtime
  BY <1>23 DEF Runtime
<1>24. CASE UpdateBootloader
  BY <1>24 DEF UpdateBootloader
<1>25. CASE Return
  BY NoRunType, <1>25 DEF Return
<1>26. CASE Raise
  BY NoRunType, <1>26 DEF Raise
<1>27. CASE Kill
  BY NoRunType, <1>27 DEF Kill
<1>28. CASE Reboot
  BY NoRunType, <1>28 DEF Reboot, BootFiles, BootZram, BootUnits, BootZswap
<1>29. ASSUME NEW f \in Name, Reactivate(f) PROVE IInv'
  BY <1>29 DEF Reactivate
<1>30. CASE UNCHANGED vars
  BY <1>30 DEF vars
<1> QED
  BY <1>1, <1>2, <1>3, <1>4, <1>5, <1>6, <1>7, <1>8, <1>9, <1>10, <1>11, <1>12,
     <1>13, <1>14, <1>15, <1>16, <1>17, <1>18, <1>19, <1>20, <1>21, <1>22, <1>23, <1>24,
     <1>25, <1>26, <1>27, <1>28, <1>29, <1>30
     DEF Next, Step, Refuse, Fail, Disturbance

(* The inductive invariant holds in every reachable state.                 *)
LEMMA SpecIInv == Spec => []IInv
BY InitIInv, NextIInv, PTL DEF Spec

(* Every variable keeps its type.                                          *)
THEOREM TypeCorrect == Spec => []TypeOK
<1>1. IInv => TypeOK
  BY DEF IInv
<1> QED
  BY <1>1, SpecIInv, PTL

(* However often the migration runs, fails, is interrupted or changes the  *)
(* size of the swap: from the first swapoff on, a valid replacement is     *)
(* active.                                                                 *)
THEOREM ReplacementActive == Spec => []ReplacementFirst
<1>1. IInv => ReplacementFirst
  BY DEF IInv
<1> QED
  BY <1>1, SpecIInv, PTL

(* Nothing is deleted before the next boot is known to activate the        *)
(* replacement, with zswap and without zram.                               *)
THEOREM NextBootPrepared == Spec => []NextBootReady
<1>1. IInv => NextBootReady
  BY DEF IInv, NextBootReady, ReplacementFirst, Persisted, Draining, Deleting, FstabWritten,
     Unmasked, BootFiles, BootUnits, BootZram, BootZswap, Chosen, Name
<1> QED
  BY <1>1, SpecIInv, PTL

(* Files disappear only in Unlink and when a run removes the file it       *)
(* failed to create: the invariant excludes files in use from both.        *)
LEMMA DeletionStep ==
  ASSUME IInv, Next, NEW f \in Name, Exists(f), sig'[f] = "absent"
  PROVE  f \notin active /\ f \notin fstab /\ (sig[f] = "swap" \/ (created /\ f = target))
<1>1. CASE Unlink
  <2>1. f = victim
    BY <1>1 DEF Unlink, Exists, IInv, TypeOK
  <2> QED
    BY <1>1, <2>1 DEF Unlink, IInv, TargetSpared, Retired
<1>2. CASE Raise
  <2>1. f = target /\ created /\ pc \in {"format", "swapon"} /\ target \notin active
    BY <1>2 DEF Raise, Exists, IInv, TypeOK, disk
  <2> QED
    BY <2>1 DEF IInv, FstabUsable
<1>3. CASE Create \/ Format
  BY <1>3 DEF Create, Format, Exists, IInv, TypeOK
<1>4. CASE UNCHANGED sig
  BY <1>4 DEF Exists
<1> QED
  BY <1>1, <1>2, <1>3, <1>4 DEF Next, Step, Refuse, Fail, Disturbance, Inventory, Reuse,
     SwapOn, ListSwaps, SwapOff, Drained, RewriteFstab, DisableZram, MaskTmpfiles, RenameUnit, MaskUnit,
     UnitsMasked, WriteCmdline, UnmaskTarget, EnableService, StartTarget, CheckTarget,
     CheckInactive, Deleted, Runtime, UpdateBootloader, Return, Kill, Reboot, Reactivate, disk

(* A deleted file is in use neither now nor at the next boot, and held swap*)
(* or was being created by the run that deletes it.                        *)
THEOREM DeletionSafe == Spec => DeletesOnlyRetiredSwap
<1>1. IInv /\ [Next]_vars =>
        [\A f \in Name :
           Exists(f) /\ sig'[f] = "absent" =>
             /\ f \notin active /\ f \notin fstab
             /\ sig[f] = "swap" \/ (created /\ f = target)]_vars
  BY DeletionStep
<1> QED
  BY <1>1, SpecIInv, PTL DEF Spec, DeletesOnlyRetiredSwap

-----------------------------------------------------------------------------
(* systemd knows the unit of every swap of the next boot and of every      *)
(* active swap file, and nobody writes unit files of the managed names.    *)
UnitsLoaded ==
  /\ BootUnits \subseteq loaded /\ active \cap Name \subseteq loaded
  /\ sunits \subseteq Legacy

(* A swap file the migration has to find: in a place it knows, or with a   *)
(* unit at the next boot.                                                  *)
OldSwap(f) == sig[f] = "swap" /\ (f \in Elsewhere => f \in BootUnits)

(* Of these the run has all that are left on its list.                     *)
Covered ==
  \A f \in Name : OldSwap(f) =>
    /\ pc = "prepare" => f \in files
    /\ pc \in Listed => f \in files \/ f = target
    /\ pc \in {"delete", "unlink"} => f \in todo \/ f = target
    /\ pc \in {"runtime", "bootloader", "done"} => f = target

CoverInv == UnitsLoaded /\ Covered

LEMMA InitCoverInv == Init => CoverInv
BY NamesAssumption DEF Init, CoverInv, UnitsLoaded, Covered, BootFiles, BootUnits, Name, Listed, BeforeDrain,
   Draining

(* The inventory misses no old swap, whatever one stale unit reports.      *)
LEMMA InventoryCovers ==
  ASSUME IInv, CoverInv, NEW units \in ReportedUnits, NEW f \in Name, OldSwap(f)
  PROVE  f \in Candidates(units) /\ Exists(f)
<1>1. Exists(f)
  BY DEF OldSwap, Exists
<1>2. CASE f \in Elsewhere /\ f \notin fstab
  <2>1. f \in loaded /\ f \notin Managed
    BY <1>2, NamesAssumption DEF OldSwap, CoverInv, UnitsLoaded, Legacy
  <2>2. f \in DOMAIN units /\ units[f] = f
    <3>1. f \in ListedUnits
      BY <1>1, <2>1 DEF ListedUnits
    <3>2. CASE units = [u \in ListedUnits |-> u]
      BY <3>1, <3>2
    <3>3. ASSUME NEW v \in loaded \cap Managed, NEW w \in {g \in Name : Exists(g)},
                 units = StaleUnits(v, w)
          PROVE  f \in DOMAIN units /\ units[f] = f
      BY <2>1, <3>1, <3>3 DEF StaleUnits
    <3> QED BY <3>2, <3>3 DEF ReportedUnits
  <2> QED BY <1>1, <2>2 DEF Candidates
<1>3. CASE f \notin Elsewhere \/ f \in fstab
  BY <1>1, <1>3 DEF Candidates, OldSwap, Name, Legacy
<1> QED BY <1>1, <1>2, <1>3

LEMMA NextCoverInv == IInv /\ CoverInv /\ [Next]_vars => CoverInv'
<1> SUFFICES ASSUME IInv, CoverInv, [Next]_vars PROVE CoverInv'
  OBVIOUS
<1> USE DEF Listed, BeforeDrain, Draining, disk, boot, live, local
<1>1. CASE Inventory
  <2>1. \A f \in Name : OldSwap(f)' = OldSwap(f)
    BY <1>1 DEF Inventory, OldSwap, BootUnits
  <2>2. UnitsLoaded' /\ pc' = "prepare"
    BY <1>1 DEF Inventory, CoverInv, UnitsLoaded, BootUnits
  <2>3. \A f \in Name : OldSwap(f) => f \in files'
    BY <1>1, InventoryCovers DEF Inventory
  <2> QED BY <2>1, <2>2, <2>3 DEF CoverInv, Covered
<1>2. CASE Reuse
  BY <1>2 DEF Reuse, CoverInv, UnitsLoaded, Covered, OldSwap, BootUnits
<1>3. CASE Create
  <2>1. ManagedName \in Name
    BY ManagedNameType DEF IInv, Name
  <2>2. sig'[ManagedName] = "unsigned" /\ \A f \in Name \ {ManagedName} : sig'[f] = sig[f]
    BY <1>3, <2>1 DEF Create, IInv, TypeOK
  <2> QED BY <1>3, <2>2 DEF Create, CoverInv, UnitsLoaded, Covered, OldSwap, BootUnits
<1>4. CASE Format
  <2>1. \A f \in Name \ {target} : sig'[f] = sig[f]
    BY <1>4 DEF Format, IInv, TypeOK
  <2> QED BY <1>4, <2>1 DEF Format, CoverInv, UnitsLoaded, Covered, OldSwap, BootUnits
<1>5. CASE SwapOn
  BY <1>5 DEF SwapOn, CoverInv, UnitsLoaded, Covered, OldSwap, BootUnits
<1>6. CASE ListSwaps \/ Drained \/ DisableZram \/ MaskTmpfiles \/ UnitsMasked \/ WriteCmdline
  BY <1>6 DEF ListSwaps, Drained, DisableZram, MaskTmpfiles, UnitsMasked, WriteCmdline, CoverInv,
     UnitsLoaded, Covered, OldSwap, BootUnits
<1>7. ASSUME NEW d \in Device, SwapOff(d) PROVE CoverInv'
  BY <1>7 DEF SwapOff, CoverInv, UnitsLoaded, Covered, OldSwap, BootUnits
<1>8. CASE pc \in Draining /\ target \in loaded /\ (RewriteFstab \/ UnmaskTarget)
  BY <1>8 DEF RewriteFstab, UnmaskTarget, CoverInv, UnitsLoaded, Covered, OldSwap, BootUnits
<1>9. RewriteFstab \/ UnmaskTarget \/ StartTarget => pc \in Draining /\ target \in loaded
  BY DEF RewriteFstab, UnmaskTarget, StartTarget, IInv, Chosen, ReplacementFirst, CoverInv,
     UnitsLoaded, Name
<1>10. ASSUME NEW u \in Device, RenameUnit(u) \/ MaskUnit(u) PROVE CoverInv'
  BY <1>10 DEF RenameUnit, MaskUnit, CoverInv, UnitsLoaded, Covered, OldSwap, BootUnits
<1>11. CASE EnableService
  BY <1>11 DEF EnableService, CoverInv, UnitsLoaded, Covered, OldSwap, BootUnits
<1>12. CASE StartTarget
  BY <1>9, <1>12 DEF StartTarget, CoverInv, UnitsLoaded, Covered, OldSwap, BootUnits
<1>13. CASE CheckTarget \/ \E f \in Name : CheckInactive(f)
  BY <1>13 DEF CheckTarget, CheckInactive, CoverInv, UnitsLoaded, Covered, OldSwap, BootUnits
<1>14. CASE Unlink
  <2>1. victim \in todo /\ \A f \in Name : sig'[f] = IF f = victim THEN "absent" ELSE sig[f]
    BY <1>14 DEF Unlink, IInv, TypeOK, TargetSpared
  <2> QED BY <1>14, <2>1 DEF Unlink, CoverInv, UnitsLoaded, Covered, OldSwap, BootUnits
<1>15. CASE Deleted \/ Runtime \/ UpdateBootloader
  BY <1>15 DEF Deleted, Runtime, UpdateBootloader, CoverInv, UnitsLoaded, Covered, OldSwap,
     BootUnits
<1>16. CASE pc' = "idle" /\ UNCHANGED <<boot, live>>
  BY <1>16 DEF CoverInv, UnitsLoaded, Covered, BootUnits
<1>17. CASE Reboot
  BY NamesAssumption, <1>17 DEF Reboot, NoRun, CoverInv, UnitsLoaded, Covered, BootUnits,
     BootFiles, BootZram
<1>18. ASSUME NEW f \in Name, Reactivate(f) PROVE CoverInv'
  BY <1>18 DEF Reactivate, CoverInv, UnitsLoaded, Covered, OldSwap, BootUnits
<1>19. CASE UNCHANGED vars
  BY <1>19 DEF vars, CoverInv, UnitsLoaded, Covered, OldSwap, BootUnits
<1>20. CASE Return \/ Raise \/ Kill
  BY <1>16, <1>20 DEF Return, Raise, Kill, NoRun
<1> QED
  BY <1>1, <1>2, <1>3, <1>4, <1>5, <1>6, <1>7, <1>8, <1>9, <1>10, <1>11, <1>12, <1>13, <1>14,
     <1>15, <1>17, <1>18, <1>19, <1>20 DEF Next, Step, Refuse, Fail, Disturbance

(* A run that ends leaves the managed file as the only swap of the next    *)
(* boot, and no old swap file in any place it knows.                       *)
THEOREM OldSwapDeleted == Spec => []OldFilesGone
<1>1. IInv /\ CoverInv => OldFilesGone
  <2> SUFFICES ASSUME IInv, CoverInv, pc = "done" PROVE OldFilesGone
    BY DEF OldFilesGone
  <2>1. target \in BootFiles
    BY DEF IInv, ReplacementFirst, Persisted, Deleting, Unmasked, Draining, FstabWritten,
       BootFiles, BootUnits
  <2>2. \A f \in Name : OldSwap(f) => f = target
    BY DEF CoverInv, Covered
  <2>3. BootFiles \subseteq Name /\ \A f \in BootFiles : OldSwap(f)
    BY DEF BootFiles, BootUnits, OldSwap, IInv, TypeOK
  <2> QED BY <2>1, <2>2, <2>3 DEF OldFilesGone, OldSwap
<1> QED
  BY <1>1, SpecIInv, InitCoverInv, NextCoverInv, PTL DEF Spec

(* Swap of the next boot is taken away only while the replacement has its  *)
(* own line in fstab.                                                      *)
LEMMA BootStep ==
  ASSUME IInv, CoverInv, Next, BootFiles # {}
  PROVE  BootFiles' # {} \/ target' \in masked'
<1> USE DEF BootFiles, BootUnits, disk, boot, live, local
<1>1. CASE RewriteFstab \/ \E u \in Device : RenameUnit(u) \/ MaskUnit(u)
  <2>1. target' = target /\ sig' = sig /\ sig[target] = "swap"
    BY <1>1 DEF RewriteFstab, RenameUnit, MaskUnit, IInv, ReplacementFirst, Draining
  <2>2. target \in fstab'
    BY <1>1 DEF RewriteFstab, RenameUnit, MaskUnit, IInv, Persisted, FstabWritten, Draining
  <2> QED BY <2>1, <2>2
<1>2. CASE Unlink
  <2>1. target \in fstab /\ target \notin masked /\ sig[target] = "swap" /\ target \in Name
    BY <1>2 DEF Unlink, IInv, Persisted, ReplacementFirst, Unmasked, Deleting, Chosen, Name
  <2>2. victim # target
    BY <1>2 DEF Unlink, IInv, TargetSpared
  <2>3. sig'[target] = "swap"
    BY <1>2, <2>1, <2>2 DEF Unlink, IInv, TypeOK
  <2> QED BY <1>2, <2>1, <2>3 DEF Unlink
<1>3. CASE Create
  <2>1. sig[ManagedName] = "absent" /\ \A f \in Name \ {ManagedName} : sig'[f] = sig[f]
    BY <1>3, ManagedNameType DEF Create, Exists, IInv, TypeOK, Name
  <2>2. BootFiles' = BootFiles \/ BootFiles \subseteq BootFiles'
    BY <1>3, <2>1 DEF Create, IInv, TypeOK
  <2> QED BY <2>2
<1>4. CASE Format
  BY <1>4 DEF Format, IInv, TypeOK
<1>5. CASE Raise
  <2>1. CASE sig' = sig
    BY <1>5, <2>1 DEF Raise
  <2>2. CASE sig' # sig
    <3>1. created /\ pc \in {"format", "swapon"} /\ target \in Managed
          /\ \A f \in Name \ {target} : sig'[f] = sig[f]
      BY <1>5, <2>2 DEF Raise, IInv, TypeOK, Chosen
    <3>2. target \notin BootUnits
      BY <3>1, NamesAssumption DEF IInv, FstabUsable, CoverInv, UnitsLoaded
    <3> QED BY <1>5, <3>1, <3>2 DEF Raise, IInv, TypeOK
  <2> QED BY <2>1, <2>2
<1>6. CASE UnmaskTarget
  BY <1>6 DEF UnmaskTarget
<1>7. CASE UNCHANGED <<sig, fstab, sunits, masked>>
  BY <1>7
<1> QED
  BY <1>1, <1>2, <1>3, <1>4, <1>5, <1>6, <1>7 DEF Next, Step, Refuse, Fail, Disturbance, Inventory,
     Reuse, SwapOn, ListSwaps, SwapOff, Drained, DisableZram, MaskTmpfiles, UnitsMasked,
     WriteCmdline, EnableService, StartTarget, CheckTarget, CheckInactive, Deleted, Runtime,
     UpdateBootloader, Return, Kill, Reboot, Reactivate

(* Whatever ends a migration, at any call, a machine that had swap to boot *)
(* with still has some, up to a target whose unit is still masked.         *)
THEOREM BootSwapKept == Spec => BootKeepsSwap
<1>1. IInv /\ CoverInv /\ [Next]_vars =>
        [BootFiles # {} => BootFiles' # {} \/ target' \in masked']_vars
  BY BootStep
<1> QED
  BY <1>1, SpecIInv, InitCoverInv, NextCoverInv, PTL DEF Spec, BootKeepsSwap
-----------------------------------------------------------------------------
(* The migration run again and again.                                      *)

(* Running the migration again adds nothing to what it may do: whatever is *)
(* proved of Spec holds of RetrySpec.                                      *)
THEOREM RetryIsMigration == RetrySpec => Spec
<1>1. RetryInit => Init
  BY DEF RetryInit
<1>2. [RetryNext]_retryVars => [Next]_vars
  BY DEF RetryNext, retryVars, Work, Next
<1> QED
  BY <1>1, <1>2, PTL DEF RetrySpec, Spec

(* A managed file holds as much as its name says, and a run works on the   *)
(* one of the present size.                                                *)
SizesHeld ==
  /\ \A s \in Sizes : sig[<<Base, s>>] = "swap" => size[<<Base, s>>] = s
  /\ pc = "prepare" => \A f \in Managed : sig[f] # "unsigned"
  /\ pc = "format" => target = Base \/ target = <<Base, ram>>

LEMMA SizesStep == IInv /\ SizesHeld /\ [Next]_vars => SizesHeld'
<1> SUFFICES ASSUME IInv, SizesHeld, [Next]_vars PROVE SizesHeld'
  OBVIOUS
<1> USE DEF SizesHeld, disk
<1>0. \A s \in Sizes : <<Base, s>> \in Name
  BY DEF Name, Managed
<1>1. CASE Inventory
  <2>1. \A f \in Managed : sig[f] # "unsigned"
    BY <1>1 DEF Inventory, Candidates, Exists, Name
  <2> QED BY <1>1, <2>1 DEF Inventory
<1>2. CASE Create
  <2>1. ManagedName = Base \/ ManagedName = <<Base, ram>>
    BY DEF ManagedName
  <2>2. ManagedName \in Name
    BY ManagedNameType DEF IInv, Name
  <2>3. \A s \in Sizes : sig'[<<Base, s>>] = "swap" =>
          sig[<<Base, s>>] = "swap" /\ size'[<<Base, s>>] = size[<<Base, s>>]
    BY <1>0, <1>2, <2>2 DEF Create, IInv, TypeOK
  <2> QED BY <1>2, <2>1, <2>3 DEF Create
<1>3. CASE Format
  <2>1. target \in Name /\ ram \in Sizes
    BY <1>3 DEF Format, IInv, Chosen, Name, TypeOK
  <2>2. \A f \in Name : /\ sig'[f] = IF f = target THEN "swap" ELSE sig[f]
                        /\ size'[f] = IF f = target THEN ram ELSE size[f]
    BY <1>3, <2>1 DEF Format, IInv, TypeOK
  <2>3. \A s \in Sizes : <<Base, s>> = target => s = ram
    BY <1>3, NamesAssumption DEF Format
  <2> QED BY <1>0, <1>3, <2>2, <2>3 DEF Format
<1>4. ASSUME NEW f \in Name, sig' = [sig EXCEPT ![f] = "absent"], size' = [size EXCEPT ![f] = 0],
             pc' \notin {"prepare", "format"}
      PROVE  SizesHeld'
  BY <1>0, <1>4 DEF IInv, TypeOK
<1>5. CASE Unlink
  <2>1. victim \in Name
    BY <1>5, NamesAssumption DEF Unlink, IInv, TypeOK, TargetSpared, Device
  <2> QED BY <1>4, <1>5, <2>1 DEF Unlink
<1>6. CASE Raise
  <2>1. CASE created /\ pc \in {"format", "swapon"} /\ target \notin active
    <3>1. target \in Name
      BY <2>1 DEF IInv, Chosen, Name
    <3> QED BY <1>4, <1>6, <2>1, <3>1 DEF Raise, NoRun
  <2> QED BY <1>6, <2>1 DEF Raise, NoRun
<1>7. CASE UNCHANGED disk /\ pc' \notin {"prepare", "format"}
  BY <1>7
<1>8. CASE UNCHANGED <<disk, ram, local>>
  BY <1>8 DEF local
<1>9. CASE Reuse \/ SwapOn \/ ListSwaps \/ Drained \/ RewriteFstab \/ DisableZram \/ MaskTmpfiles
           \/ UnitsMasked \/ WriteCmdline \/ UnmaskTarget \/ EnableService \/ StartTarget
  BY <1>7, <1>9 DEF Reuse, SwapOn, ListSwaps, Drained, RewriteFstab, DisableZram, MaskTmpfiles,
     UnitsMasked, WriteCmdline, UnmaskTarget, EnableService, StartTarget
<1>10. CASE CheckTarget \/ Deleted \/ Runtime \/ UpdateBootloader \/ Return \/ Kill \/ Reboot
  BY <1>7, <1>10 DEF CheckTarget, Deleted, Runtime, UpdateBootloader, Return, Kill, Reboot, NoRun
<1>11. ASSUME NEW d \in Device, SwapOff(d) \/ RenameUnit(d) \/ MaskUnit(d) PROVE SizesHeld'
  BY <1>7, <1>11 DEF SwapOff, RenameUnit, MaskUnit, local
<1>12. ASSUME NEW f \in Name, CheckInactive(f) PROVE SizesHeld'
  BY <1>7, <1>12 DEF CheckInactive
<1>13. ASSUME NEW f \in Name, Reactivate(f) PROVE SizesHeld'
  BY <1>8, <1>13 DEF Reactivate
<1>14. CASE UNCHANGED vars
  BY <1>8, <1>14 DEF vars
<1> QED
  BY <1>1, <1>2, <1>3, <1>5, <1>6, <1>9, <1>10, <1>11, <1>12, <1>13, <1>14
     DEF Next, Step, Refuse, Fail, Disturbance

LEMMA DevicesFinite == \A S \in SUBSET Device : IsFiniteSet(S) /\ Cardinality(S) \in Nat
<1> DEFINE f == [s \in Sizes |-> <<Base, s>>]
           Sized == {<<Base, s>> : s \in Sizes}
<1>1. IsFiniteSet(Sized)
  <2>1. f \in Surjection(Sizes, Sized)
    BY DEF Surjection
  <2> QED BY <2>1, FinitenessAssumption, FS_Surjection
<1>2. IsFiniteSet({Base}) /\ IsFiniteSet({Zram})
  BY FS_Singleton
<1>3. Device = ((Legacy \cup {Base}) \cup Sized) \cup {Zram}
  BY DEF Device, Name, Managed
<1>4. IsFiniteSet(Device)
  <2> HIDE DEF Sized
  <2>1. IsFiniteSet(Legacy \cup {Base})
    BY <1>2, FinitenessAssumption, FS_Union
  <2>2. IsFiniteSet((Legacy \cup {Base}) \cup Sized)
    BY <1>1, <2>1, FS_Union
  <2>3. IsFiniteSet(((Legacy \cup {Base}) \cup Sized) \cup {Zram})
    BY <1>2, <2>2, FS_Union
  <2> QED BY <1>3, <2>3
<1> QED BY <1>4, FS_Subset, FS_CardinalityType

(* Nothing stands in the way of a run that nobody disturbs: the managed    *)
(* name it chose can be used, and of all swap only the target is active    *)
(* when the old files are deleted.                                         *)
Clear ==
  calm =>
    /\ pc = "prepare" => \/ ~Exists(ManagedName)
                         \/ sig[ManagedName] = "swap" /\ size[ManagedName] = ram
    /\ pc \in BeforeDrain => wasActive = active
    /\ pc = "drain" => active \subseteq todo \cup {target}
    /\ pc \in (Draining \ {"list", "drain"}) \cup Deleting => active \subseteq {target}

LEMMA NotRefused == IInv /\ Clear /\ calm => ~Refuse
BY DEF Clear, Refuse, IInv, TargetSpared, BeforeDrain, Draining, Deleting

(* The parts of a run in their order, and what is left to do in one that   *)
(* goes through a list.                                                    *)
Part(l) ==
  CASE l = "prepare"  -> 1    [] l = "format"    -> 2    [] l = "swapon"  -> 3
    [] l = "list"     -> 4    [] l = "drain"     -> 5    [] l = "fstab"   -> 6
    [] l = "zram"     -> 7    [] l = "tmpfiles"  -> 8    [] l = "units"   -> 9
    [] l = "cmdline"  -> 10   [] l = "unmask"    -> 11   [] l = "enable"  -> 12
    [] l = "start"    -> 13   [] l = "check"     -> 14   [] l = "delete"  -> 15
    [] l = "unlink"   -> 15   [] l = "runtime"   -> 16   [] l = "bootloader" -> 17
    [] l = "done"     -> 18   [] l = "idle"      -> 19

LEMMA Parts ==
  /\ Part("prepare") = 1 /\ Part("format") = 2 /\ Part("swapon") = 3
  /\ Part("list") = 4 /\ Part("drain") = 5 /\ Part("fstab") = 6
  /\ Part("zram") = 7 /\ Part("tmpfiles") = 8 /\ Part("units") = 9
  /\ Part("cmdline") = 10 /\ Part("unmask") = 11 /\ Part("enable") = 12
  /\ Part("start") = 13 /\ Part("check") = 14 /\ Part("delete") = 15
  /\ Part("unlink") = 15 /\ Part("runtime") = 16 /\ Part("bootloader") = 17
  /\ Part("done") = 18 /\ Part("idle") = 19
BY DEF Part

Rest ==
  CASE pc = "drain"  -> Cardinality(todo)
    [] pc = "units"  -> Cardinality(todo) + Cardinality(todo \cap sunits)
    [] pc = "delete" -> 2 * Cardinality(todo)
    [] pc = "unlink" -> 2 * Cardinality(todo) - 1
    [] OTHER         -> 0

Nearer ==
  IF pc = "idle" THEN pc' = "prepare"
  ELSE /\ pc' = "idle" => pc = "done"
       /\ \/ Part(pc) < Part(pc')
          \/ Part(pc) = Part(pc') /\ Rest' < Rest

(* The steps that go on to the next part.                                  *)
LEMMA PartStep ==
  ASSUME Step, pc # "idle"
  PROVE  \/ Part(pc) < Part(pc') /\ (pc' = "idle" => pc = "done")
         \/ \E d \in Device : SwapOff(d) \/ RenameUnit(d) \/ MaskUnit(d)
         \/ \E f \in Name : CheckInactive(f)
         \/ Unlink
<1>1. CASE Inventory \/ Reuse \/ Create \/ Format \/ SwapOn
  BY <1>1, Parts DEF Inventory, Reuse, Create, Format, SwapOn
<1>2. CASE ListSwaps \/ Drained \/ RewriteFstab \/ DisableZram \/ MaskTmpfiles
  BY <1>2, Parts DEF ListSwaps, Drained, RewriteFstab, DisableZram, MaskTmpfiles
<1>3. CASE UnitsMasked \/ WriteCmdline \/ UnmaskTarget \/ EnableService \/ StartTarget
  BY <1>3, Parts DEF UnitsMasked, WriteCmdline, UnmaskTarget, EnableService, StartTarget
<1>4. CASE CheckTarget \/ Deleted \/ Runtime \/ UpdateBootloader
  <2>1. \/ pc = "check" /\ pc' = "delete"
        \/ pc = "delete" /\ pc' = "runtime"
        \/ pc = "runtime" /\ pc' = "bootloader"
        \/ pc = "bootloader" /\ pc' = "done"
    BY <1>4 DEF CheckTarget, Deleted, Runtime, UpdateBootloader
  <2> QED BY <2>1, Parts
<1>5. CASE Return
  <2>1. pc = "done" /\ pc' = "idle"
    BY <1>5 DEF Return, NoRun
  <2> QED BY <2>1, Parts
<1> QED BY <1>1, <1>2, <1>3, <1>4, <1>5 DEF Step

LEMMA TodoFinite ==
  ASSUME IInv
  PROVE  /\ \A S \in SUBSET todo : IsFiniteSet(S) /\ Cardinality(S) \in Nat
         /\ \A x \in todo : Cardinality(todo \ {x}) = Cardinality(todo) - 1
<1>1. todo \in SUBSET Device
  BY DEF IInv, TypeOK
<1> QED BY <1>1, DevicesFinite, FS_RemoveElement

LEMMA RestType == IInv => Rest \in Nat
<1> SUFFICES ASSUME IInv PROVE Rest \in Nat
  OBVIOUS
<1>1. Cardinality(todo) \in Nat /\ Cardinality(todo \cap sunits) \in Nat
  BY TodoFinite
<1>2. CASE pc = "unlink"
  <2>1. victim \in todo
    BY <1>2 DEF IInv, TargetSpared
  <2>2. Cardinality(todo \ {victim}) \in Nat /\ Cardinality(todo \ {victim}) = Cardinality(todo) - 1
    BY <2>1, TodoFinite
  <2> QED BY <1>1, <1>2, <2>2 DEF Rest
<1> QED BY <1>1, <1>2 DEF Rest

(* The steps that go through a list.                                       *)
LEMMA ListStep ==
  ASSUME IInv,
         \/ \E d \in Device : SwapOff(d) \/ RenameUnit(d) \/ MaskUnit(d)
         \/ \E f \in Name : CheckInactive(f)
         \/ Unlink
  PROVE  pc' # "idle" /\ Part(pc) = Part(pc') /\ Rest' < Rest
<1>1. Cardinality(todo) \in Nat /\ Cardinality(todo \cap sunits) \in Nat
  BY TodoFinite
<1>2. ASSUME NEW d \in Device, SwapOff(d) PROVE pc' = pc /\ pc # "idle" /\ Rest' < Rest
  <2>1. Cardinality(todo') = Cardinality(todo) - 1
    BY <1>2, TodoFinite DEF SwapOff
  <2> QED BY <1>1, <1>2, <2>1 DEF SwapOff, Rest
<1>3. ASSUME NEW d \in Device, RenameUnit(d) PROVE pc' = pc /\ pc # "idle" /\ Rest' < Rest
  <2>1. IsFiniteSet(todo \cap sunits) /\ d \in todo \cap sunits
        /\ todo' \cap sunits' = (todo \cap sunits) \ {d} /\ todo' = todo
    BY <1>3, TodoFinite DEF RenameUnit, local
  <2>2. Cardinality(todo' \cap sunits') = Cardinality(todo \cap sunits) - 1
    BY <2>1, FS_RemoveElement
  <2> QED BY <1>1, <1>3, <2>1, <2>2 DEF RenameUnit, Rest, local
<1>4. ASSUME NEW d \in Device, MaskUnit(d) PROVE pc' = pc /\ pc # "idle" /\ Rest' < Rest
  <2>1. Cardinality(todo') = Cardinality(todo) - 1
    BY <1>4, TodoFinite DEF MaskUnit
  <2>2. todo' \cap sunits' = todo \cap sunits
    BY <1>4 DEF MaskUnit
  <2>3. pc = "units" /\ pc' = pc
    BY <1>4 DEF MaskUnit
  <2>4. /\ Rest = Cardinality(todo) + Cardinality(todo \cap sunits)
        /\ Rest' = Cardinality(todo') + Cardinality(todo' \cap sunits')
    BY <2>3 DEF Rest
  <2>5. Cardinality(todo' \cap sunits') = Cardinality(todo \cap sunits)
    BY <2>2
  <2> QED BY <1>1, <1>4, <2>1, <2>3, <2>4, <2>5 DEF MaskUnit
<1>5. ASSUME NEW f \in Name, CheckInactive(f)
      PROVE  pc = "delete" /\ pc' = "unlink" /\ Rest' < Rest
  BY <1>1, <1>5 DEF CheckInactive, Rest
<1>6. CASE Unlink
  <2>1. victim \in todo
    BY <1>6 DEF Unlink, IInv, TargetSpared
  <2>2. Cardinality(todo') = Cardinality(todo) - 1
    BY <1>6, <2>1, TodoFinite DEF Unlink
  <2>3. pc = "unlink" /\ pc' = "delete" /\ Rest' < Rest
    BY <1>1, <1>6, <2>2 DEF Unlink, Rest
  <2> QED BY <2>3, Parts
<1> QED BY <1>2, <1>3, <1>4, <1>5, <1>6, Parts

LEMMA ClearStep ==
  ASSUME IInv, SizesHeld, Clear, calm, Step, UNCHANGED calm
  PROVE  Clear'
<1> USE DEF BeforeDrain, Draining, Deleting, live
<1>0. /\ pc \in {"prepare", "format", "swapon"} => wasActive = active
      /\ pc = "drain" => active \subseteq todo \cup {target}
      /\ pc \in {"fstab", "zram", "tmpfiles", "units", "cmdline", "unmask", "enable", "start",
                 "check", "delete", "unlink", "runtime", "bootloader", "done"} =>
           active \subseteq {target}
  BY DEF Clear
<1>1. CASE Inventory
  <2>1. ManagedName \in Managed /\ ManagedName \in Name
    BY ManagedNameType DEF IInv, Name
  <2>2. sig[ManagedName] # "unsigned"
    BY <1>1, <2>1 DEF Inventory, Candidates, Exists
  <2>3. sig[ManagedName] = "swap" => size[ManagedName] = ram
    BY DEF ManagedName, Exists, SizesHeld, IInv, TypeOK
  <2>4. ~Exists(ManagedName) \/ sig[ManagedName] = "swap"
    BY <2>1, <2>2 DEF Exists, IInv, TypeOK
  <2>5. UNCHANGED <<sig, size, ram, active>> /\ pc' = "prepare" /\ wasActive' = active
    BY <1>1 DEF Inventory, disk
  <2>6. UNCHANGED ManagedName
    BY <2>5 DEF ManagedName, Exists
  <2>7. (~Exists(ManagedName) \/ (sig[ManagedName] = "swap" /\ size[ManagedName] = ram))'
    BY <2>3, <2>4, <2>5, <2>6 DEF Exists
  <2> QED BY <2>5, <2>7 DEF Clear
<1>2. CASE Reuse \/ Create \/ Format
  BY <1>0, <1>2 DEF Reuse, Create, Format, Clear
<1>3. CASE SwapOn
  BY <1>0, <1>3 DEF SwapOn, Clear
<1>4. CASE ListSwaps \/ Drained
  BY <1>0, <1>4 DEF ListSwaps, Drained, Clear
<1>5. ASSUME NEW d \in Device, SwapOff(d) PROVE Clear'
  BY <1>0, <1>5 DEF SwapOff, Clear
<1>6. CASE RewriteFstab \/ DisableZram \/ MaskTmpfiles \/ UnitsMasked \/ WriteCmdline \/ UnmaskTarget
  BY <1>0, <1>6 DEF RewriteFstab, DisableZram, MaskTmpfiles, UnitsMasked, WriteCmdline,
     UnmaskTarget, Clear
<1>7. ASSUME NEW d \in Device, RenameUnit(d) \/ MaskUnit(d) PROVE Clear'
  BY <1>0, <1>7 DEF RenameUnit, MaskUnit, local, Clear
<1>8. CASE EnableService \/ StartTarget
  BY <1>0, <1>8 DEF EnableService, StartTarget, Clear
<1>9. CASE CheckTarget \/ Unlink \/ Deleted \/ \E f \in Name : CheckInactive(f)
  BY <1>0, <1>9 DEF CheckTarget, Unlink, Deleted, CheckInactive, Clear
<1>10. CASE Runtime \/ UpdateBootloader \/ Return
  BY <1>0, <1>10 DEF Runtime, UpdateBootloader, Return, NoRun, Clear
<1> QED BY <1>1, <1>2, <1>3, <1>4, <1>5, <1>6, <1>7, <1>8, <1>9, <1>10 DEF Step

LEMMA AlwaysClear == RetrySpec => [](IInv /\ Clear)
<1>1. RetryInit => SizesHeld /\ Clear
  BY DEF RetryInit, Init, SizesHeld, Clear, Managed
<1>2. IInv /\ SizesHeld /\ Clear /\ [RetryNext]_retryVars => SizesHeld' /\ Clear'
  <2> SUFFICES ASSUME IInv, SizesHeld, Clear, [RetryNext]_retryVars PROVE SizesHeld' /\ Clear'
    OBVIOUS
  <2>1. [Next]_vars
    BY DEF RetryNext, retryVars, Work, Next
  <2>2. ASSUME calm' PROVE Clear'
    <3>1. CASE Work
      BY <2>2, <3>1, NotRefused, ClearStep DEF Work
    <3>2. CASE ~calm /\ UNCHANGED calm
      BY <2>2, <3>2
    <3>3. CASE pc = "idle" /\ UNCHANGED vars
      BY <3>3 DEF vars, local, Clear, BeforeDrain, Draining, Deleting
    <3>4. CASE UNCHANGED retryVars
      BY <3>4 DEF retryVars, vars, local, live, disk, Clear, ManagedName, Exists
    <3> QED BY <3>1, <3>2, <3>3, <3>4 DEF RetryNext
  <2> QED BY <2>1, <2>2, SizesStep DEF Clear
<1> QED BY <1>1, <1>2, RetryIsMigration, SpecIInv, PTL DEF RetrySpec

(* Once calls no longer fail and nobody else activates swap, no call of a  *)
(* run that has taken its inventory is refused, whatever earlier runs left *)
(* behind: each call brings it to a later part or takes something off the  *)
(* list of this one, and it ends only when it is done.  This is Converges  *)
(* but for the fairness that makes the next call come.                     *)
THEOREM CalmRunEnds ==
  RetrySpec => []Clear /\ [](Rest \in Nat) /\ [][calm => Nearer /\ ~Refuse]_retryVars
<1>1. IInv /\ Clear /\ [RetryNext]_retryVars => [calm => Nearer /\ ~Refuse]_retryVars
  <2> SUFFICES ASSUME IInv, Clear, RetryNext, ~UNCHANGED retryVars, calm PROVE Nearer /\ ~Refuse
    BY DEF retryVars
  <2>1. ~Refuse
    BY NotRefused
  <2>2. Step
    BY <2>1 DEF RetryNext, Work, retryVars
  <2>3. CASE pc = "idle"
    <3>1. Inventory
      BY <2>2, <2>3 DEF Step, Reuse, Create, Format, SwapOn, ListSwaps, SwapOff, Drained,
         RewriteFstab, DisableZram, MaskTmpfiles, RenameUnit, MaskUnit, UnitsMasked, WriteCmdline,
         UnmaskTarget, EnableService, StartTarget, CheckTarget, CheckInactive, Unlink, Deleted,
         Runtime, UpdateBootloader, Return
    <3> QED BY <2>1, <2>3, <3>1 DEF Inventory, Nearer
  <2>4. CASE pc # "idle"
    BY <2>1, <2>2, <2>4, PartStep, ListStep DEF Nearer
  <2> QED BY <2>3, <2>4
<1> QED BY <1>1, RestType, AlwaysClear, PTL DEF RetrySpec
=============================================================================
