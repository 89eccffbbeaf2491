--------------------------- MODULE InstallerProofs ---------------------------
(***************************************************************************)
(* Proofs about Installer, for all sets of packages, and about a run in    *)
(* which nothing fails any more (InstallerRetry).                          *)
(***************************************************************************)
EXTENDS InstallerRetry, Integers, TLAPS

(* Nothing of a run is left when none is in progress, and nothing is       *)
(* staged before the copies are made.                                      *)
Fresh ==
  /\ pc \notin {"idle", "cleanup"} => outcome = "none"
  /\ pc \in {"idle", "download", "select", "confirmStock", "capture"} =>
       staged = NotStaged /\ ~ready

(* The copies staged for a rollback come from the cache, which never holds *)
(* the release, and there is one for each package when the rollback is     *)
(* ready.                                                                  *)
StagedOld ==
  /\ \A n \in Name : "new" \notin cached[n] /\ "none" \notin cached[n]
  /\ \A n \in Name : Present(staged, n) => n \in remove /\ staged[n] \in cached[n]
  /\ ready => \A n \in remove : Present(staged, n)

Listed == {"confirmStock", "capture", "confirm", "disable", "flag", "devmode", "remove"}

(* What the steps of the transaction have achieved.                        *)
Achieved ==
  /\ pc \in {"devmode", "remove", "install", "rollback", "restore", "restoreMenu", "configure",
             "menu"} => writable
  /\ pc \in {"restore", "restoreMenu"} => ready
  /\ pc = "restoreMenu" => \A n \in remove : installed[n] = staged[n] /\ n \notin torn
  /\ pc \in {"configure", "menu"} => \A n \in New : installed[n] = "new" /\ n \notin torn
  /\ pc = "menu" => swapDone
  /\ pc = "cleanup" /\ outcome = "success" =>
       /\ writable /\ swapDone /\ "series" \in menu
       /\ \A n \in New : installed[n] = "new" /\ n \notin torn

(* A package of the release that is installed is on the list of those to   *)
(* remove, and gone when the release is installed.                         *)
NewListed ==
  /\ pc \in Listed => \A n \in New : Present(installed, n) => n \in remove
  /\ pc = "install" => \A n \in New : ~Present(installed, n)

(* A kernel of the menu is installed until the removal, and from then on   *)
(* it is installed or among the packages to restore.                       *)
MenuKernel ==
  /\ pc \in Asking \ {"idle"} /\ before.bootable => Bootable
  /\ pc \in {"install", "rollback", "restore", "restoreMenu"} /\ before.bootable =>
       \E k \in Kernel : Image(k) \in menu /\ (k \in remove \/ k \in Intact \ New)

IInv ==
  TypeOK /\ Fresh /\ StagedOld /\ Achieved /\ NewListed /\ MenuKernel
    /\ RestoredMeansPrevious /\ UnbootableExitWarns


-----------------------------------------------------------------------------
(* What a transaction that fails, or is killed, may have done: nothing to  *)
(* other packages than its own.                                            *)
LEMMA TargetsOf ==
  ASSUME TypeOK
  PROVE  /\ Targets \subseteq Name
         /\ Result \in [Name -> Version]
         /\ pc = "remove" => Targets \subseteq remove
         /\ pc = "install" => Targets \subseteq New
         /\ pc = "restore" => Targets \subseteq Staged
         /\ pc \notin {"remove", "install", "restore"} => Targets = {}
  <1>1. NotStaged \in [Name -> Version] /\ Release \in [Name -> Version]
    BY DEF NotStaged, Release, Version
  <1>2. Result \in [Name -> Version]
    BY <1>1 DEF Result, TypeOK
  <1>3. New \subseteq Name /\ remove \subseteq Name /\ Staged \subseteq Name
    BY DEF Name, TypeOK, Staged
  <1> QED
    BY <1>2, <1>3 DEF Targets

LEMMA PartlyDone ==
  ASSUME TypeOK, PartlyInstalled \/ CutShort
  PROVE  /\ installed' \in [Name -> Version]
         /\ torn' \subseteq Name /\ locked' \in BOOLEAN
         /\ \A n \in Name \ Targets :
              installed'[n] = installed[n] /\ (n \in torn' <=> n \in torn)
         /\ Targets = {} => UNCHANGED <<installed, torn>>
  <1> USE TargetsOf DEF TypeOK, After
  <1>1. CASE PartlyInstalled
    <2>1. PICK S \in SUBSET Targets :
            /\ installed' = After(S, Result)
            /\ \/ torn' = torn \ S
               \/ \E t \in S : torn' = (torn \ S) \cup {t}
      BY <1>1 DEF PartlyInstalled
    <2>2. locked' = locked
      BY <1>1 DEF PartlyInstalled
    <2>3. installed' \in [Name -> Version]
      BY <2>1
    <2>4. \A n \in Name \ Targets : installed'[n] = installed[n] /\ (n \in torn' <=> n \in torn)
      BY <2>1
    <2>5. torn' \subseteq Name
      BY <2>1
    <2>6. ASSUME Targets = {} PROVE UNCHANGED <<installed, torn>>
      <3>1. S = {}
        BY <2>6
      <3>2. installed' = installed
        BY <2>1, <3>1
      <3>3. torn' = torn
        BY <2>1, <3>1
      <3> QED
        BY <3>2, <3>3
    <2> QED
      BY <2>2, <2>3, <2>4, <2>5, <2>6
  <1>2. CASE CutShort
    <2>1. Targets # {} /\ locked' = TRUE
      BY <1>2 DEF CutShort
    <2>2. PICK S \in SUBSET Targets :
            \/ installed' = After(S, Result) /\ torn' = torn \ S
            \/ \E t \in Targets \ S :
                 /\ installed' = [n \in Name |->
                      IF n = t /\ pc # "remove" THEN "none" ELSE After(S, Result)[n]]
                 /\ torn' = (torn \ S) \cup {t}
      BY <1>2 DEF CutShort
    <2>3. CASE installed' = After(S, Result) /\ torn' = torn \ S
      <3>1. installed' \in [Name -> Version]
        BY <2>3
      <3>2. \A n \in Name \ Targets : installed'[n] = installed[n] /\ (n \in torn' <=> n \in torn)
        BY <2>3
      <3> QED
        BY <2>1, <2>3, <3>1, <3>2
    <2>4. ASSUME NEW t \in Targets \ S,
                 installed' = [n \in Name |->
                   IF n = t /\ pc # "remove" THEN "none" ELSE After(S, Result)[n]],
                 torn' = (torn \ S) \cup {t}
          PROVE  /\ installed' \in [Name -> Version]
                 /\ torn' \subseteq Name
                 /\ \A n \in Name \ Targets :
                      installed'[n] = installed[n] /\ (n \in torn' <=> n \in torn)
      <3>1. installed' \in [Name -> Version]
        BY <2>4 DEF Version
      <3>2. \A n \in Name \ Targets : installed'[n] = installed[n] /\ (n \in torn' <=> n \in torn)
        BY <2>4
      <3> QED
        BY <2>4, <3>1, <3>2
    <2> QED
      BY <2>1, <2>2, <2>3, <2>4
  <1> QED
    BY <1>1, <1>2

(* The same of all that an unsuccessful command leaves.                    *)
LEMMA BrokenLeaves ==
  ASSUME TypeOK, Broken
  PROVE  /\ PartlyInstalled
         /\ readonly' \in BOOLEAN
         /\ UNCHANGED <<cached, menu, grubTool, swapDone>>
  BY DEF TypeOK, Broken, Unfinished

(* How a run goes on after a command that did not succeed.                 *)
LEMMA Unsuccessful ==
  ASSUME TypeOK, Fail \/ InstallFails \/ RestoreFails \/ Interrupt \/ Kill
  PROVE  /\ installed' \in [Name -> Version] /\ torn' \subseteq Name /\ locked' \in BOOLEAN
         /\ readonly' \in BOOLEAN /\ UNCHANGED <<cached, menu, grubTool, swapDone>>
         /\ pc \notin {"remove", "install", "restore"} => UNCHANGED <<installed, torn>>
         /\ \/ /\ pc \in {"download", "select", "capture", "disable", "devmode", "remove",
                          "configure", "menu"}
               /\ pc' = "cleanup" /\ outcome' = "error" /\ endedAt' = pc
               /\ UNCHANGED <<remove, staged, ready, writable, before>>
            \/ /\ pc = "install" /\ pc' = "rollback"
               /\ UNCHANGED <<outcome, endedAt, remove, staged, ready, writable, before>>
            \/ /\ pc = "restore" /\ pc' = "cleanup" /\ outcome' = "doNotReboot"
               /\ endedAt' = pc
               /\ UNCHANGED <<remove, staged, ready, writable, before>>
            \/ /\ pc \notin {"idle", "cleanup"} /\ pc' = "cleanup" /\ outcome' = "interrupted"
               /\ endedAt' = pc
               /\ UNCHANGED <<remove, staged, ready, writable, before>>
            \/ outcome' = "killed" /\ NoScript
  <1>1. PartlyInstalled \/ CutShort
    BY BrokenLeaves DEF Fail, InstallFails, RestoreFails, Interrupt, Kill
  <1>2. /\ installed' \in [Name -> Version] /\ torn' \subseteq Name /\ locked' \in BOOLEAN
        /\ \A n \in Name \ Targets :
             installed'[n] = installed[n] /\ (n \in torn' <=> n \in torn)
    BY <1>1, PartlyDone
  <1>3. readonly' \in BOOLEAN /\ UNCHANGED <<cached, menu, grubTool, swapDone>>
    BY BrokenLeaves DEF Fail, InstallFails, RestoreFails, Interrupt, Kill, Unfinished, TypeOK
  <1>4. pc \notin {"remove", "install", "restore"} => UNCHANGED <<installed, torn>>
    BY <1>1, PartlyDone, TargetsOf
  <1>5. CASE Fail
    BY <1>2, <1>3, <1>4, <1>5 DEF Fail, Stop
  <1>6. CASE InstallFails
    BY <1>2, <1>3, <1>4, <1>6 DEF InstallFails, Goto
  <1>7. CASE RestoreFails
    BY <1>2, <1>3, <1>4, <1>7 DEF RestoreFails, Stop
  <1>8. CASE Interrupt
    BY <1>2, <1>3, <1>4, <1>8 DEF Interrupt, Stop
  <1>9. CASE Kill
    BY <1>2, <1>3, <1>4, <1>9 DEF Kill
  <1> QED
    BY <1>5, <1>6, <1>7, <1>8, <1>9

(* Type correctness, the flags apart from the other variables.             *)
Flags ==
  /\ locked \in BOOLEAN
  /\ grubTool \in BOOLEAN /\ readonly \in BOOLEAN /\ swapDone \in BOOLEAN
  /\ ready \in BOOLEAN /\ writable \in BOOLEAN
  /\ before \in [bootable : BOOLEAN, readonly : BOOLEAN]

Values ==
  /\ installed \in [Name -> Version] /\ torn \subseteq Name
  /\ cached \in [Name -> SUBSET Version]
  /\ menu \subseteq Other \cup {"series"}
  /\ pc \in PC /\ endedAt \in PC
  /\ remove \subseteq Name
  /\ staged \in [Name -> Version]
  /\ \A n \in Name : staged[n] # "none" => staged[n] \in cached[n]
  /\ outcome \in Outcome

LEMMA FlagsStep ==
  ASSUME TypeOK, [Next]_vars
  PROVE  Flags'
  <1> USE DEF TypeOK, Flags, vars, packages, machine, script, Goto, Stop
  <1>0. Unknown \in [bootable : BOOLEAN, readonly : BOOLEAN]
    BY DEF Unknown
  <1>1. CASE Start \/ Download \/ Select \/ ConfirmStock \/ Confirm \/ Cancel
    <2>1. Bootable \in BOOLEAN
      BY DEF Bootable
    <2> QED
      BY <1>1, <2>1 DEF Start, Download, Select, ConfirmStock, Confirm, Cancel
  <1>2. CASE Capture
    BY <1>2 DEF Capture
  <1>3. CASE DisableReadonly \/ SetFlag \/ EnableDevmode
    BY <1>3 DEF DisableReadonly, SetFlag, EnableDevmode
  <1>4. CASE RemoveOld
    BY <1>4 DEF RemoveOld
  <1>5. CASE InstallNew
    BY <1>5 DEF InstallNew
  <1>6. CASE Configure \/ UpdateMenu
    BY <1>6 DEF Configure, UpdateMenu
  <1>7. CASE NoRollback \/ Rollback \/ RestoreMenu
    BY <1>7 DEF NoRollback, Rollback, RestoreMenu
  <1>8. CASE Restore
    BY <1>8 DEF Restore
  <1>9. CASE CleanUp \/ CleanUpFails
    BY <1>9, <1>0 DEF CleanUp, CleanUpFails, NoScript
  <1>10. CASE Refuse
    BY <1>10 DEF Refuse
  <1>11. CASE Fail \/ InstallFails \/ RestoreFails \/ Interrupt \/ Kill
    BY <1>11, <1>0, PartlyDone, BrokenLeaves DEF Unfinished, Fail, InstallFails, RestoreFails, Interrupt, Kill, NoScript
  <1>12. ASSUME NEW n \in Name, NEW v \in {"none", "upgraded"}, OtherPacman(n, v)
       PROVE  Flags'
    BY <1>12 DEF OtherPacman
  <1>13. CASE Repair
    BY <1>13 DEF Repair
  <1>14. CASE UNCHANGED vars
    BY <1>14
  <1> QED
    BY <1>1, <1>2, <1>3, <1>4, <1>5, <1>6, <1>7, <1>8, <1>9, <1>10, <1>11, <1>12, <1>13, <1>14 DEF Next, Step, Disturbance

LEMMA ValuesStep ==
  ASSUME IInv, [Next]_vars
  PROVE  Values'
  <1> USE DEF IInv, TypeOK, Values, StagedOld, vars, packages, machine, script, Goto, Stop, PC, Outcome, Version, NotStaged, Asking
  <1>1. CASE Start \/ Download \/ Select \/ ConfirmStock \/ Confirm \/ Cancel
    BY <1>1 DEF Start, Download, Select, ConfirmStock, Confirm, Cancel
  <1>2. CASE Capture
    BY <1>2 DEF Capture, Present
  <1>3. CASE DisableReadonly \/ SetFlag \/ EnableDevmode
    BY <1>3 DEF DisableReadonly, SetFlag, EnableDevmode
  <1>4. CASE RemoveOld
    BY <1>4 DEF RemoveOld, After
  <1>5. CASE InstallNew
    BY <1>5 DEF InstallNew, After, Release
  <1>6. CASE Configure \/ UpdateMenu
    BY <1>6 DEF Configure, UpdateMenu, Menus, Images, Image
  <1>7. CASE NoRollback \/ Rollback \/ RestoreMenu
    BY <1>7 DEF NoRollback, Rollback, RestoreMenu, Menus, Images, Image
  <1>8. CASE Restore
    BY <1>8 DEF Restore, After
  <1>9. CASE CleanUp \/ CleanUpFails
    BY <1>9 DEF CleanUp, CleanUpFails, NoScript
  <1>10. CASE Refuse
    BY <1>10 DEF Refuse
  <1>11. CASE Fail \/ InstallFails \/ RestoreFails \/ Interrupt \/ Kill
    <2>1. CASE UNCHANGED <<remove, staged, ready, writable, before>>
      <3>1. /\ pc' \in {"cleanup", "rollback", "idle"} /\ endedAt' \in {pc, endedAt, "idle"}
            /\ outcome' \in {"error", "doNotReboot", "interrupted", "killed", outcome}
        BY <1>11, Unsuccessful DEF NoScript
      <3> QED
        BY <1>11, <2>1, <3>1, Unsuccessful
    <2>2. CASE outcome' = "killed" /\ NoScript
      BY <1>11, <2>2, Unsuccessful DEF NoScript
    <2> QED
      BY <1>11, <2>1, <2>2, Unsuccessful
  <1>12. ASSUME NEW n \in Name, NEW v \in {"none", "upgraded"}, OtherPacman(n, v)
       PROVE  Values'
    BY <1>12 DEF OtherPacman, Present
  <1>13. CASE Repair
    BY <1>13 DEF Repair
  <1>14. CASE UNCHANGED vars
    BY <1>14
  <1> QED
    BY <1>1, <1>2, <1>3, <1>4, <1>5, <1>6, <1>7, <1>8, <1>9, <1>10, <1>11, <1>12, <1>13, <1>14 DEF Next, Step, Disturbance

LEMMA FreshStep ==
  ASSUME IInv, [Next]_vars
  PROVE  Fresh'
  <1> USE DEF IInv, TypeOK, Fresh, vars, packages, machine, script, Goto, Stop, NotStaged, Asking
  <1>1. CASE Start \/ Download \/ Select \/ ConfirmStock \/ Confirm \/ Cancel
    BY <1>1 DEF Start, Download, Select, ConfirmStock, Confirm, Cancel
  <1>2. CASE Capture
    BY <1>2 DEF Capture
  <1>3. CASE DisableReadonly \/ SetFlag \/ EnableDevmode
    BY <1>3 DEF DisableReadonly, SetFlag, EnableDevmode
  <1>4. CASE RemoveOld
    BY <1>4 DEF RemoveOld
  <1>5. CASE InstallNew
    BY <1>5 DEF InstallNew
  <1>6. CASE Configure \/ UpdateMenu
    BY <1>6 DEF Configure, UpdateMenu
  <1>7. CASE NoRollback \/ Rollback \/ RestoreMenu
    BY <1>7 DEF NoRollback, Rollback, RestoreMenu
  <1>8. CASE Restore
    BY <1>8 DEF Restore
  <1>9. CASE CleanUp \/ CleanUpFails
    BY <1>9 DEF CleanUp, CleanUpFails, NoScript
  <1>10. CASE Refuse
    BY <1>10 DEF Refuse
  <1>11. CASE Fail \/ InstallFails \/ RestoreFails \/ Interrupt \/ Kill
    BY <1>11, Unsuccessful DEF NoScript
  <1>12. ASSUME NEW n \in Name, NEW v \in {"none", "upgraded"}, OtherPacman(n, v)
       PROVE  Fresh'
    BY <1>12 DEF OtherPacman
  <1>13. CASE Repair
    BY <1>13 DEF Repair
  <1>14. CASE UNCHANGED vars
    BY <1>14
  <1> QED
    BY <1>1, <1>2, <1>3, <1>4, <1>5, <1>6, <1>7, <1>8, <1>9, <1>10, <1>11, <1>12, <1>13, <1>14 DEF Next, Step, Disturbance

LEMMA StagedStep ==
  ASSUME IInv, [Next]_vars
  PROVE  StagedOld'
  <1> USE DEF IInv, TypeOK, Fresh, StagedOld, vars, packages, machine, script, Goto, Stop, Present, NotStaged, Asking
  <1>1. CASE Start \/ Download \/ Select \/ ConfirmStock \/ Confirm \/ Cancel
    BY <1>1 DEF Start, Download, Select, ConfirmStock, Confirm, Cancel
  <1>2. CASE Capture
    BY <1>2 DEF Capture
  <1>3. CASE DisableReadonly \/ SetFlag \/ EnableDevmode
    BY <1>3 DEF DisableReadonly, SetFlag, EnableDevmode
  <1>4. CASE RemoveOld
    BY <1>4 DEF RemoveOld
  <1>5. CASE InstallNew
    BY <1>5 DEF InstallNew
  <1>6. CASE Configure \/ UpdateMenu
    BY <1>6 DEF Configure, UpdateMenu
  <1>7. CASE NoRollback \/ Rollback \/ RestoreMenu
    BY <1>7 DEF NoRollback, Rollback, RestoreMenu
  <1>8. CASE Restore
    BY <1>8 DEF Restore
  <1>9. CASE CleanUp \/ CleanUpFails
    BY <1>9 DEF CleanUp, CleanUpFails, NoScript
  <1>10. CASE Refuse
    BY <1>10 DEF Refuse
  <1>11. CASE Fail \/ InstallFails \/ RestoreFails \/ Interrupt \/ Kill
    <2>1. CASE UNCHANGED <<remove, staged, ready, writable, before>>
      BY <1>11, <2>1, Unsuccessful DEF NoScript
    <2>2. CASE outcome' = "killed" /\ NoScript
      BY <1>11, <2>2, Unsuccessful DEF NoScript
    <2> QED
      BY <1>11, <2>1, <2>2, Unsuccessful
  <1>12. ASSUME NEW n \in Name, NEW v \in {"none", "upgraded"}, OtherPacman(n, v)
       PROVE  StagedOld'
    BY <1>12 DEF OtherPacman
  <1>13. CASE Repair
    BY <1>13 DEF Repair
  <1>14. CASE UNCHANGED vars
    BY <1>14
  <1> QED
    BY <1>1, <1>2, <1>3, <1>4, <1>5, <1>6, <1>7, <1>8, <1>9, <1>10, <1>11, <1>12, <1>13, <1>14 DEF Next, Step, Disturbance

LEMMA AchievedStep ==
  ASSUME IInv, [Next]_vars
  PROVE  Achieved'
  <1> USE DEF IInv, TypeOK, Fresh, Achieved, StagedOld, vars, packages, machine, script, Goto, Stop, Present, Asking
  <1>1. CASE Start \/ Download \/ Select \/ ConfirmStock \/ Confirm \/ Cancel
    BY <1>1 DEF Start, Download, Select, ConfirmStock, Confirm, Cancel
  <1>2. CASE Capture
    BY <1>2 DEF Capture
  <1>3. CASE DisableReadonly \/ SetFlag \/ EnableDevmode
    BY <1>3 DEF DisableReadonly, SetFlag, EnableDevmode
  <1>4. CASE RemoveOld
    BY <1>4 DEF RemoveOld
  <1>5. CASE InstallNew
    BY <1>5 DEF InstallNew, After, Release, Name
  <1>6. CASE Configure \/ UpdateMenu
    BY <1>6, PackagesAssumption DEF Configure, UpdateMenu, Menus, Images, Image, Intact, Registered, Name, Present
  <1>7. CASE NoRollback \/ Rollback \/ RestoreMenu
    BY <1>7 DEF NoRollback, Rollback, RestoreMenu
  <1>8. CASE Restore
    BY <1>8 DEF Restore, After, Staged
  <1>9. CASE CleanUp \/ CleanUpFails
    BY <1>9 DEF CleanUp, CleanUpFails, NoScript
  <1>10. CASE Refuse
    BY <1>10 DEF Refuse
  <1>11. CASE Fail \/ InstallFails \/ RestoreFails \/ Interrupt \/ Kill
    BY <1>11, Unsuccessful DEF NoScript
  <1>12. ASSUME NEW n \in Name, NEW v \in {"none", "upgraded"}, OtherPacman(n, v)
       PROVE  Achieved'
    BY <1>12 DEF OtherPacman
  <1>13. CASE Repair
    BY <1>13 DEF Repair
  <1>14. CASE UNCHANGED vars
    BY <1>14
  <1> QED
    BY <1>1, <1>2, <1>3, <1>4, <1>5, <1>6, <1>7, <1>8, <1>9, <1>10, <1>11, <1>12, <1>13, <1>14 DEF Next, Step, Disturbance

LEMMA NewListedStep ==
  ASSUME IInv, [Next]_vars
  PROVE  NewListed'
  <1> USE DEF IInv, TypeOK, Fresh, NewListed, Listed, StagedOld, vars, packages, machine, script, Goto, Stop, Present, Asking
  <1>1. CASE Start \/ Download \/ Select \/ ConfirmStock \/ Confirm \/ Cancel
    BY <1>1 DEF Name, Start, Download, Select, ConfirmStock, Confirm, Cancel
  <1>2. CASE Capture
    BY <1>2 DEF Capture
  <1>3. CASE DisableReadonly \/ SetFlag \/ EnableDevmode
    BY <1>3 DEF DisableReadonly, SetFlag, EnableDevmode
  <1>4. CASE RemoveOld
    BY <1>4 DEF RemoveOld, After, NotStaged, Name
  <1>5. CASE InstallNew
    BY <1>5 DEF InstallNew, After, Release, Name
  <1>6. CASE Configure \/ UpdateMenu
    BY <1>6, PackagesAssumption DEF Configure, UpdateMenu, Menus, Images, Image, Intact, Registered, Name, Present
  <1>7. CASE NoRollback \/ Rollback \/ RestoreMenu
    BY <1>7 DEF NoRollback, Rollback, RestoreMenu
  <1>8. CASE Restore
    BY <1>8 DEF Restore, After, Staged
  <1>9. CASE CleanUp \/ CleanUpFails
    BY <1>9 DEF CleanUp, CleanUpFails, NoScript
  <1>10. CASE Refuse
    BY <1>10 DEF Refuse
  <1>11. CASE Fail \/ InstallFails \/ RestoreFails \/ Interrupt \/ Kill
    BY <1>11, Unsuccessful DEF NoScript
  <1>12. ASSUME NEW n \in Name, NEW v \in {"none", "upgraded"}, OtherPacman(n, v)
       PROVE  NewListed'
    BY <1>12, PackagesAssumption DEF OtherPacman, Name
  <1>13. CASE Repair
    BY <1>13 DEF Repair
  <1>14. CASE UNCHANGED vars
    BY <1>14
  <1> QED
    BY <1>1, <1>2, <1>3, <1>4, <1>5, <1>6, <1>7, <1>8, <1>9, <1>10, <1>11, <1>12, <1>13, <1>14 DEF Next, Step, Disturbance

LEMMA MenuStep ==
  ASSUME IInv, [Next]_vars
  PROVE  MenuKernel'
  <1> USE DEF IInv, TypeOK, Fresh, Achieved, StagedOld, MenuKernel, vars, packages, machine, script, Goto, Stop, Present, Asking, Bootable, Images, Intact, Registered
  <1>1. CASE Start \/ Download \/ Select \/ ConfirmStock \/ Confirm \/ Cancel
    BY <1>1 DEF Start, Download, Select, ConfirmStock, Confirm, Cancel
  <1>2. CASE Capture
    BY <1>2 DEF Capture
  <1>3. CASE DisableReadonly \/ SetFlag \/ EnableDevmode
    BY <1>3 DEF DisableReadonly, SetFlag, EnableDevmode
  <1>4. CASE RemoveOld
    <2>1. \A k \in Name \ remove : installed'[k] = installed[k] /\ (k \in torn' <=> k \in torn)
      BY <1>4 DEF RemoveOld, After
    <2>2. before.bootable => \E k \in Kernel : Image(k) \in menu /\ k \in Intact
      BY <1>4 DEF RemoveOld
    <2>3. \A k \in Intact \ remove : k \in Intact' \ New
      BY <1>4, <2>1 DEF RemoveOld, NewListed, Listed
    <2> QED
      BY <1>4, <2>2, <2>3, PackagesAssumption DEF RemoveOld
  <1>5. CASE InstallNew
    BY <1>5 DEF InstallNew
  <1>6. CASE Configure \/ UpdateMenu
    BY <1>6 DEF Configure, UpdateMenu
  <1>7. CASE NoRollback \/ Rollback \/ RestoreMenu
    BY <1>7 DEF NoRollback, Rollback, RestoreMenu
  <1>8. CASE Restore
    <2>1. \A k \in Intact : k \in Intact'
      BY <1>8 DEF Restore, After, Staged
    <2> QED
      BY <1>8, <2>1, PackagesAssumption DEF Restore
  <1>9. CASE CleanUp \/ CleanUpFails
    BY <1>9 DEF CleanUp, CleanUpFails, NoScript
  <1>10. CASE Refuse
    BY <1>10 DEF Refuse
  <1>11. CASE Fail \/ InstallFails \/ RestoreFails \/ Interrupt \/ Kill
    <2>1. CASE InstallFails
      <3>1. \A k \in Intact \ New : k \in Intact'
        BY <2>1, TargetsOf, BrokenLeaves, PartlyDone DEF InstallFails
      <3> QED
        BY <2>1, <3>1, BrokenLeaves, PackagesAssumption DEF InstallFails
    <2>2. pc' \in {"cleanup", "idle"} => MenuKernel'
      OBVIOUS
    <2> QED
      BY <1>11, <2>1, <2>2 DEF Fail, RestoreFails, Interrupt, Kill, NoScript
  <1>12. ASSUME NEW n \in Name, NEW v \in {"none", "upgraded"}, OtherPacman(n, v)
       PROVE  MenuKernel'
    BY <1>12 DEF OtherPacman
  <1>13. CASE Repair
    BY <1>13 DEF Repair
  <1>14. CASE UNCHANGED vars
    BY <1>14
  <1> QED
    BY <1>1, <1>2, <1>3, <1>4, <1>5, <1>6, <1>7, <1>8, <1>9, <1>10, <1>11, <1>12, <1>13, <1>14 DEF Next, Step, Disturbance

LEMMA RestoredStep ==
  ASSUME IInv, [Next]_vars
  PROVE  RestoredMeansPrevious'
  <1> USE DEF IInv, TypeOK, Fresh, Achieved, StagedOld, RestoredMeansPrevious, vars, packages, machine, script, Goto, Stop, Present, Asking, Intact, Registered
  <1>1. CASE Start \/ Download \/ Select \/ ConfirmStock \/ Confirm \/ Cancel
    BY <1>1 DEF Start, Download, Select, ConfirmStock, Confirm, Cancel
  <1>2. CASE Capture
    BY <1>2 DEF Capture
  <1>3. CASE DisableReadonly \/ SetFlag \/ EnableDevmode
    BY <1>3 DEF DisableReadonly, SetFlag, EnableDevmode
  <1>4. CASE RemoveOld
    BY <1>4 DEF RemoveOld
  <1>5. CASE InstallNew
    BY <1>5 DEF InstallNew
  <1>6. CASE Configure \/ UpdateMenu
    BY <1>6 DEF Configure, UpdateMenu
  <1>7. CASE NoRollback \/ Rollback \/ RestoreMenu
    BY <1>7 DEF NoRollback, Rollback, RestoreMenu
  <1>8. CASE Restore
    BY <1>8 DEF Restore
  <1>9. CASE CleanUp \/ CleanUpFails
    BY <1>9 DEF CleanUp, CleanUpFails, NoScript
  <1>10. CASE Refuse
    BY <1>10 DEF Refuse
  <1>11. CASE Fail \/ InstallFails \/ RestoreFails \/ Interrupt \/ Kill
    BY <1>11, Unsuccessful DEF NoScript
  <1>12. ASSUME NEW n \in Name, NEW v \in {"none", "upgraded"}, OtherPacman(n, v)
       PROVE  RestoredMeansPrevious'
    BY <1>12 DEF OtherPacman
  <1>13. CASE Repair
    BY <1>13 DEF Repair
  <1>14. CASE UNCHANGED vars
    BY <1>14
  <1> QED
    BY <1>1, <1>2, <1>3, <1>4, <1>5, <1>6, <1>7, <1>8, <1>9, <1>10, <1>11, <1>12, <1>13, <1>14 DEF Next, Step, Disturbance

LEMMA WarnStep ==
  ASSUME IInv, [Next]_vars
  PROVE  UnbootableExitWarns'
  <1> USE DEF IInv, TypeOK, Fresh, Achieved, StagedOld, MenuKernel, UnbootableExitWarns, vars, packages, machine, script, Goto, Stop, Present, Asking, Bootable, Images, Intact, Registered
  <1>1. CASE Start \/ Download \/ Select \/ ConfirmStock \/ Confirm \/ Cancel
    BY <1>1 DEF Start, Download, Select, ConfirmStock, Confirm, Cancel
  <1>2. CASE Capture
    BY <1>2 DEF Capture
  <1>3. CASE DisableReadonly \/ SetFlag \/ EnableDevmode
    BY <1>3 DEF DisableReadonly, SetFlag, EnableDevmode
  <1>4. CASE RemoveOld
    BY <1>4 DEF RemoveOld
  <1>5. CASE InstallNew
    BY <1>5 DEF InstallNew
  <1>6. CASE Configure \/ UpdateMenu
    BY <1>6, PackagesAssumption DEF Configure, UpdateMenu, Menus, Image, Name
  <1>7. CASE NoRollback \/ Rollback \/ RestoreMenu
    BY <1>7, PackagesAssumption DEF NoRollback, Rollback, RestoreMenu, Menus
  <1>8. CASE Restore
    BY <1>8 DEF Restore
  <1>9. CASE CleanUp \/ CleanUpFails
    BY <1>9 DEF CleanUp, CleanUpFails, NoScript
  <1>10. CASE Refuse
    BY <1>10 DEF Refuse
  <1>11. CASE Fail \/ InstallFails \/ RestoreFails \/ Interrupt \/ Kill
    <2>1. CASE UNCHANGED <<remove, staged, ready, writable, before>>
      BY <1>11, <2>1, Unsuccessful DEF NoScript
    <2>2. CASE outcome' = "killed" /\ NoScript
      BY <1>11, <2>2, Unsuccessful DEF NoScript
    <2> QED
      BY <1>11, <2>1, <2>2, Unsuccessful
  <1>12. ASSUME NEW n \in Name, NEW v \in {"none", "upgraded"}, OtherPacman(n, v)
       PROVE  UnbootableExitWarns'
    BY <1>12 DEF OtherPacman
  <1>13. CASE Repair
    BY <1>13 DEF Repair
  <1>14. CASE UNCHANGED vars
    BY <1>14
  <1> QED
    BY <1>1, <1>2, <1>3, <1>4, <1>5, <1>6, <1>7, <1>8, <1>9, <1>10, <1>11, <1>12, <1>13, <1>14 DEF Next, Step, Disturbance

-----------------------------------------------------------------------------
LEMMA InitIInv == Init => IInv
  <1> SUFFICES ASSUME Init PROVE IInv
    OBVIOUS
  <1> USE DEF Init
  <1>1. Bootable \in BOOLEAN
    BY DEF Bootable
  <1>2. Flags
    BY <1>1 DEF Flags, Unknown
  <1>3. Values
    BY DEF Values, Version, PC, Outcome, NotStaged, Images, Image, Registered, Name
  <1>4. TypeOK
    BY <1>2, <1>3, Zenon DEF TypeOK, Flags, Values
  <1>5. Fresh /\ StagedOld /\ Achieved /\ NewListed /\ MenuKernel
    BY DEF Fresh, StagedOld, Achieved, NewListed, Listed, MenuKernel, Present, NotStaged, Asking
  <1>6. RestoredMeansPrevious /\ UnbootableExitWarns
    BY DEF RestoredMeansPrevious, UnbootableExitWarns
  <1> QED
    BY <1>4, <1>5, <1>6 DEF IInv

LEMMA StepIInv == IInv /\ [Next]_vars => IInv'
  <1> SUFFICES ASSUME IInv, [Next]_vars PROVE IInv'
    OBVIOUS
  <1>1. TypeOK /\ Flags
    BY Zenon DEF IInv, TypeOK, Flags
  <1>2. Values
    BY Zenon DEF IInv, TypeOK, Values
  <1>3. Flags' /\ Values'
    BY <1>1, <1>2, FlagsStep, ValuesStep
  <1>4. TypeOK'
    BY <1>3, Zenon DEF TypeOK, Flags, Values
  <1> QED
    BY <1>4, FreshStep, StagedStep, AchievedStep, NewListedStep, MenuStep, RestoredStep, WarnStep DEF IInv

LEMMA Inductive == Spec => []IInv
  BY InitIInv, StepIInv, PTL DEF Spec

(* Every variable of the installer keeps its type, and what is staged for  *)
(* a rollback is a copy from the package cache.                            *)
THEOREM TypeCorrect == Spec => []TypeOK
  <1>1. IInv => TypeOK
    BY DEF IInv
  <1> QED
    BY <1>1, Inductive, PTL

(* When the script says that the previous packages were restored, all it   *)
(* removed is installed again.                                             *)
THEOREM RestoredTruthful == Spec => []RestoredMeansPrevious
  <1>1. IInv => RestoredMeansPrevious
    BY DEF IInv
  <1> QED
    BY <1>1, Inductive, PTL

(* The script does not leave a machine without a bootable kernel in        *)
(* silence, except where the property says.                                *)
THEOREM UnbootableTold == Spec => []UnbootableExitWarns
  <1>1. IInv => UnbootableExitWarns
    BY DEF IInv
  <1> QED
    BY <1>1, Inductive, PTL

(* Success is only reported of a complete installation.                    *)
THEOREM SuccessTruthful == Spec => SuccessMeansComplete
  <1>1. IInv /\ [Next]_vars =>
          [pc = "cleanup" /\ pc' = "idle" /\ outcome' = "success" => Complete']_vars
    <2> SUFFICES ASSUME IInv, Next, pc = "cleanup", pc' = "idle", outcome' = "success"
                 PROVE  Complete'
      BY DEF vars
    <2>1. CleanUp
      BY DEF Next, Step, Disturbance, Start, Download, Select, ConfirmStock, Capture, Confirm,
             Cancel, DisableReadonly, SetFlag, EnableDevmode, RemoveOld, InstallNew, Configure,
             UpdateMenu, NoRollback, Rollback, Restore, RestoreMenu, CleanUpFails, Refuse, Fail,
             InstallFails, RestoreFails, Interrupt, Kill, Repair, OtherPacman, Asking,
             script
    <2> QED
      BY <2>1 DEF IInv, Achieved, CleanUp, Complete, packages, packages
  <1> QED
    BY <1>1, Inductive, PTL DEF Spec, SuccessMeansComplete

(* Only packages the user was shown are removed.                           *)
THEOREM RemovalsConsented == Spec => ConsentedRemovals
  <1>1. IInv /\ [Next]_vars =>
          [\A n \in Name : pc # pc' /\ Present(installed, n) /\ ~Present(installed', n) =>
             n \in remove /\ outcome = "none"]_vars
    <2> SUFFICES ASSUME IInv, Next, NEW n \in Name,
                        pc # pc', Present(installed, n), ~Present(installed', n)
                 PROVE  n \in remove /\ outcome = "none"
      BY DEF vars
    <2> USE DEF IInv, TypeOK, Fresh, Present, Goto, Stop, packages, machine
    <2>1. CASE RemoveOld
      BY <2>1 DEF RemoveOld, After
    <2>2. CASE InstallNew
      BY <2>2 DEF InstallNew, After, Release
    <2>3. CASE Restore
      BY <2>3 DEF Restore, After, Staged
    <2>4. CASE Fail \/ InstallFails \/ RestoreFails \/ Interrupt \/ Kill
      <3>1. PartlyInstalled \/ CutShort
        BY <2>4, BrokenLeaves DEF Fail, InstallFails, RestoreFails, Interrupt, Kill
      <3>2. n \in Targets /\ pc \in {"remove", "install", "restore"}
        BY <3>1, PartlyDone, TargetsOf
      <3>3. n \in remove
        BY <3>2, TargetsOf DEF NewListed, StagedOld, Staged
      <3> QED
        BY <3>2, <3>3
    <2>5. ASSUME NEW m \in Name, NEW v \in Version, OtherPacman(m, v)
          PROVE  FALSE
      BY <2>5 DEF OtherPacman
    <2> QED
      BY <2>1, <2>2, <2>3, <2>4, <2>5
      DEF Next, Step, Disturbance, Start, Download, Select, ConfirmStock, Capture, Confirm,
          Cancel, DisableReadonly, SetFlag, EnableDevmode, Configure, UpdateMenu, NoRollback,
          Rollback, RestoreMenu, CleanUp, CleanUpFails, Refuse, Repair, Version
  <1> QED
    BY <1>1, Inductive, PTL DEF Spec, ConsentedRemovals

-----------------------------------------------------------------------------
(* The installer started again and again.                                  *)

(* Starting the script again adds nothing to what it may do: whatever is   *)
(* proved of Spec holds of RetrySpec.                                      *)
THEOREM RetryIsInstaller == RetrySpec => Spec
  <1>1. RetryInit => Init
    BY DEF RetryInit
  <1>2. [RetryNext]_retryVars => [Next]_vars
    BY DEF RetryNext, retryVars, Work, Next
  <1> QED
    BY <1>1, <1>2, PTL DEF RetrySpec, Spec

(* The way a run takes when nothing fails, and how many commands are left. *)
Way == {"idle", "download", "select", "confirmStock", "capture", "confirm", "disable", "flag",
        "devmode", "remove", "install", "configure", "menu", "cleanup"}

CommandsLeft(l) ==
  CASE l = "download" -> 13    [] l = "select" -> 12    [] l = "confirmStock" -> 11
    [] l = "capture" -> 10     [] l = "confirm" -> 9    [] l = "disable" -> 8
    [] l = "flag" -> 7         [] l = "devmode" -> 6    [] l = "remove" -> 5
    [] l = "install" -> 4      [] l = "configure" -> 3  [] l = "menu" -> 2
    [] l = "cleanup" -> 1      [] l = "idle" -> 0

LEMMA Counts ==
  /\ CommandsLeft("idle") = 0 /\ CommandsLeft("cleanup") = 1 /\ CommandsLeft("menu") = 2
  /\ CommandsLeft("configure") = 3 /\ CommandsLeft("install") = 4 /\ CommandsLeft("remove") = 5
  /\ CommandsLeft("devmode") = 6 /\ CommandsLeft("flag") = 7 /\ CommandsLeft("disable") = 8
  /\ CommandsLeft("confirm") = 9 /\ CommandsLeft("capture") = 10
  /\ CommandsLeft("confirmStock") = 11 /\ CommandsLeft("select") = 12
  /\ CommandsLeft("download") = 13
  BY DEF CommandsLeft

(* On it no command meets what it refuses, if no killed pacman has left    *)
(* its lock or files in the way of the release: what is to be removed is   *)
(* what is installed, and after that nothing is left for the release to be *)
(* in conflict with.                                                       *)
OnTheWay ==
  calm /\ grubTool /\ ~Blocked =>
    /\ pc \in Way
    /\ pc \in Listed => remove = Registered
    /\ pc = "install" => Registered = {}
    /\ pc = "cleanup" => outcome = "success"

LEMMA InstallAccepted ==
  ASSUME Registered = {}, ~Blocked
  PROVE  Accepted(New, Release)
  <1>1. \A k \in Stock \cap Kernel : ~Present(After(New, Release), k)
    BY PackagesAssumption DEF After, Name, Present, Registered
  <1> QED
    BY <1>1 DEF Conflict, Accepted, Blocked

LEMMA NoRefusal ==
  ASSUME OnTheWay, calm, grubTool, ~Blocked
  PROVE  ~Refuse
  BY InstallAccepted DEF OnTheWay, Refuse, Way, Listed, Registered, Removable, Blocked

(* A run does not get rid of what is in its way, nor does it put anything  *)
(* there.                                                                  *)
LEMMA BlockedKept ==
  ASSUME TypeOK, Step \/ Refuse
  PROVE  Blocked' <=> Blocked
  <1>1. CASE RemoveOld
    <2>1. Registered' = Registered \ remove /\ remove \subseteq Registered
      BY <1>1 DEF RemoveOld, Removable, Registered, After, NotStaged, Present, TypeOK
    <2> QED
      BY <1>1, <2>1 DEF RemoveOld, Blocked, Strays
  <1>2. CASE InstallNew
    <2>1. Registered' = Registered \cup New
      BY <1>2 DEF InstallNew, Registered, After, Release, Present, TypeOK, Name
    <2> QED
      BY <1>2, <2>1 DEF InstallNew, Accepted, Blocked, Strays
  <1>3. CASE Restore
    <2>1. Registered' = Registered \cup Staged
      BY <1>3 DEF Restore, Registered, After, Staged, Present, TypeOK
    <2> QED
      BY <1>3, <2>1 DEF Restore, Accepted, Blocked, Strays
  <1>4. CASE UNCHANGED packages
    BY <1>4 DEF packages, Blocked, Strays, Registered, Present
  <1> USE DEF machine
  <1>5. CASE Start \/ Download \/ Select \/ ConfirmStock \/ Capture \/ Confirm
    BY <1>4, <1>5 DEF Start, Download, Select, ConfirmStock, Capture, Confirm
  <1>6. CASE DisableReadonly \/ SetFlag \/ EnableDevmode \/ Configure \/ UpdateMenu
    BY <1>4, <1>6 DEF DisableReadonly, SetFlag, EnableDevmode, Configure, UpdateMenu
  <1>7. CASE NoRollback \/ Rollback \/ RestoreMenu \/ CleanUp \/ Refuse
    BY <1>4, <1>7 DEF NoRollback, Rollback, RestoreMenu, CleanUp, Refuse
  <1> QED
    BY <1>1, <1>2, <1>3, <1>5, <1>6, <1>7 DEF Step

(* What a step makes of the way, and of the commands left.                 *)
Forward ==
  IF pc = "idle" THEN pc' = "download"
  ELSE /\ pc \in Way /\ pc' \in Way /\ CommandsLeft(pc') = CommandsLeft(pc) - 1
       /\ pc = "cleanup" => outcome' = "success" /\ Complete'

LEMMA WayKept ==
  ASSUME TypeOK, OnTheWay, calm, grubTool, ~Blocked, Step, UNCHANGED calm
  PROVE  OnTheWay'
  <1> USE DEF Goto, Stop, packages, machine, OnTheWay, Way, Listed, Registered, Present
  <1>1. CASE Start \/ Download \/ Select
    BY <1>1 DEF Start, Download, Select
  <1>2. CASE ConfirmStock \/ Capture \/ Confirm \/ DisableReadonly \/ SetFlag \/ EnableDevmode
    BY <1>2 DEF ConfirmStock, Capture, Confirm, DisableReadonly, SetFlag, EnableDevmode
  <1>3. CASE RemoveOld
    BY <1>3 DEF RemoveOld, After, NotStaged
  <1>4. CASE InstallNew \/ Configure \/ UpdateMenu
    BY <1>4 DEF InstallNew, Configure, UpdateMenu
  <1>5. CASE CleanUp
    BY <1>5 DEF CleanUp, NoScript
  <1>6. CASE NoRollback \/ Rollback \/ Restore \/ RestoreMenu
    BY <1>6 DEF NoRollback, Rollback, Restore, RestoreMenu
  <1> QED
    BY <1>1, <1>2, <1>3, <1>4, <1>5, <1>6 DEF Step

LEMMA ForwardStep ==
  ASSUME IInv, OnTheWay, calm, grubTool, ~Blocked, Step
  PROVE  Forward
  <1>1. CASE CleanUp
    <2>1. outcome' = "success" /\ Complete'
      BY <1>1 DEF OnTheWay, IInv, Achieved, CleanUp, Complete, packages, packages
    <2>2. pc = "cleanup" /\ pc' = "idle"
      BY <1>1 DEF CleanUp, NoScript
    <2> QED
      BY <2>1, <2>2, Counts DEF Forward, Way
  <1>2. CASE ~CleanUp
    <2>1. pc \in Way
      BY DEF OnTheWay
    <2>2. \/ pc = "idle" /\ pc' = "download"
          \/ pc = "download" /\ pc' = "select"
          \/ pc = "select" /\ pc' = "confirmStock"
          \/ pc = "confirmStock" /\ pc' = "capture"
          \/ pc = "capture" /\ pc' = "confirm"
          \/ pc = "confirm" /\ pc' = "disable"
          \/ pc = "disable" /\ pc' = "flag"
          \/ pc = "flag" /\ pc' = "devmode"
          \/ pc = "devmode" /\ pc' = "remove"
          \/ pc = "remove" /\ pc' = "install"
          \/ pc = "install" /\ pc' = "configure"
          \/ pc = "configure" /\ pc' = "menu"
          \/ pc = "menu" /\ pc' = "cleanup"
      <3> USE DEF Goto, Stop
      <3>1. CASE Start \/ Download \/ Select \/ ConfirmStock
        BY <3>1 DEF Start, Download, Select, ConfirmStock
      <3>2. CASE Capture \/ Confirm \/ DisableReadonly \/ SetFlag \/ EnableDevmode
        BY <3>2 DEF Capture, Confirm, DisableReadonly, SetFlag, EnableDevmode
      <3>3. CASE RemoveOld \/ InstallNew
        BY <3>3 DEF RemoveOld, InstallNew
      <3>4. CASE Configure \/ UpdateMenu
        BY <3>4 DEF Configure, UpdateMenu
      <3>5. CASE NoRollback \/ Rollback \/ Restore \/ RestoreMenu
        BY <2>1, <3>5 DEF Way, NoRollback, Rollback, Restore, RestoreMenu
      <3> QED
        BY <1>2, <3>1, <3>2, <3>3, <3>4, <3>5 DEF Step
    <2> QED
      BY <2>2, Counts DEF Forward, Way
  <1> QED
    BY <1>1, <1>2

LEMMA AlwaysOnTheWay == RetrySpec => [](IInv /\ OnTheWay)
  <1>1. RetryInit => OnTheWay
    BY DEF RetryInit, OnTheWay
  <1>2. IInv /\ OnTheWay /\ [RetryNext]_retryVars => OnTheWay'
    <2> SUFFICES ASSUME IInv, OnTheWay, [RetryNext]_retryVars, calm', grubTool', ~Blocked'
                 PROVE  OnTheWay'
      BY DEF OnTheWay
    <2>1. CASE Work
      <3>1. calm /\ grubTool
        BY <2>1 DEF Work, Step, Refuse, machine, Start, Download, Select, ConfirmStock, Capture,
           Confirm, DisableReadonly, SetFlag, EnableDevmode, RemoveOld, InstallNew, Configure,
           UpdateMenu, NoRollback, Rollback, Restore, RestoreMenu, CleanUp
      <3>2. TypeOK /\ ~Blocked
        BY <2>1, BlockedKept DEF IInv, Work
      <3> QED
        BY <2>1, <3>1, <3>2, WayKept, NoRefusal DEF Work
    <2>2. CASE ~calm /\ UNCHANGED calm
      BY <2>2
    <2>3. CASE pc = "idle" /\ UNCHANGED vars
      BY <2>3 DEF vars, script, OnTheWay, Way, Listed
    <2>4. CASE UNCHANGED retryVars
      BY <2>4 DEF retryVars, vars, script, machine, packages, OnTheWay, Blocked, Strays,
         Registered, Present
    <2> QED
      BY <2>1, <2>2, <2>3, <2>4 DEF RetryNext
  <1> QED
    BY <1>1, <1>2, RetryIsInstaller, Inductive, PTL DEF RetrySpec

(* Once calls no longer fail, and if a program that updates the bootloader *)
(* exists, a run neither creates nor removes what blocks it: the lock of a *)
(* killed pacman and files this had not registered.  Where there is none,  *)
(* no command refuses, each brings the run one of at most 13 nearer to its *)
(* end, and there the installation is complete and the script says so.     *)
(* This is Recovers but for the fairness that makes the next command come. *)
THEOREM CalmRunSucceeds ==
  RetrySpec =>
    /\ []OnTheWay
    /\ [][calm /\ grubTool =>
            /\ Blocked' <=> Blocked
            /\ ~Blocked => Forward /\ ~Refuse]_retryVars
  <1>1. IInv /\ OnTheWay /\ [RetryNext]_retryVars =>
          [calm /\ grubTool =>
             /\ Blocked' <=> Blocked
             /\ ~Blocked => Forward /\ ~Refuse]_retryVars
    <2> SUFFICES ASSUME IInv, OnTheWay, RetryNext, ~UNCHANGED retryVars, calm, grubTool
                 PROVE  /\ Blocked' <=> Blocked
                        /\ ~Blocked => Forward /\ ~Refuse
      BY DEF retryVars
    <2>1. CASE Work
      <3>1. Blocked' <=> Blocked
        BY <2>1, BlockedKept DEF Work, IInv
      <3>2. ~Blocked => Forward /\ ~Refuse
        BY <2>1, ForwardStep, NoRefusal DEF Work
      <3> QED
        BY <3>1, <3>2
    <2>2. CASE pc = "idle" /\ calm' = TRUE /\ UNCHANGED vars
      BY <2>2 DEF retryVars
    <2> QED
      BY <2>1, <2>2 DEF RetryNext
  <1> QED
    BY <1>1, AlwaysOnTheWay, PTL DEF RetrySpec

=============================================================================
