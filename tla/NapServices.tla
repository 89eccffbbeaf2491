------------------------------ MODULE NapServices ------------------------------
(***************************************************************************)
(* The systemd units of the Nap tools and the package scripts that enable, *)
(* start and stop them.  What has been learned is a number that grows; the *)
(* commands of napctl, which NapCtl has in detail, succeed or fail as one  *)
(* step.                                                                   *)
(***************************************************************************)
EXTENDS Naturals

CONSTANTS MaxLearned  \* bound, a natural number

VARIABLES abi,        \* whether the running kernel has the interface for weights
          live,       \* what the running kernel has learned
          state,      \* the snapshot a restore loads; 0 when there is none
          service,    \* of nap-state.service
          timer,      \* whether nap-state-save.timer is active
          enabled,    \* whether both are enabled
          installed   \* the package

vars == <<abi, live, state, service, timer, enabled, installed>>

Init ==
  /\ abi \in BOOLEAN /\ live = 0 /\ state = 0
  /\ service = "inactive" /\ timer = FALSE /\ enabled = FALSE /\ installed = FALSE

Learn ==
  /\ abi /\ live < MaxLearned /\ live' = live + 1
  /\ UNCHANGED <<abi, state, service, timer, enabled, installed>>

\* napctl save; nothing is saved when nothing was learned.
Save(ok) == state' = IF ok /\ live > 0 THEN live ELSE state

\* systemctl start: the condition of the unit, and a oneshot service that remains
\* after exit, so that a second start does nothing.
Restores == abi /\ service # "active"

StartService(ok) ==
  /\ live' = IF Restores /\ ok /\ state > 0 THEN state ELSE live
  /\ service' = IF ~Restores THEN service ELSE IF ok THEN "active" ELSE "failed"

\* systemctl stop: ExecStop saves, and its failure does not keep the unit running.
StopService(ok) ==
  /\ IF service = "active" THEN Save(ok) ELSE UNCHANGED state
  /\ service' = IF service = "active" /\ ~ok THEN "failed" ELSE "inactive"

\* nap-state-save.service.
TimerSave(ok) ==
  /\ timer /\ abi
  /\ Save(ok)
  /\ UNCHANGED <<abi, live, service, timer, enabled, installed>>

\* configure-services install, by the first installation and by every upgrade.
Configure(ok) ==
  /\ enabled' = TRUE /\ installed' = TRUE
  /\ StartService(ok)
  /\ timer' = abi
  /\ UNCHANGED <<abi, state>>

Install(ok) == ~installed /\ Configure(ok)

Upgrade(ok) == installed /\ Configure(ok)

\* configure-services remove, in pre_remove.
Remove(ok) ==
  /\ installed /\ installed' = FALSE
  /\ timer' = FALSE /\ enabled' = FALSE
  /\ StopService(ok)
  /\ UNCHANGED <<abi, live>>

\* NAP-TOOLS.md: systemctl disable --now, to stop saving automatically.
Disable(ok) ==
  /\ installed
  /\ timer' = FALSE /\ enabled' = FALSE
  /\ StopService(ok)
  /\ UNCHANGED <<abi, live, installed>>

\* The kernel the next boot runs starts with the built-in weights; the service is
\* started before anything is learned.
Boot(saved, next, ok) ==
  LET kept == IF saved /\ service = "active" /\ live > 0 THEN live ELSE state
      starts == enabled /\ next
  IN  /\ abi' = next /\ state' = kept
      /\ live' = IF starts /\ ok THEN kept ELSE 0
      /\ service' = IF ~starts THEN "inactive" ELSE IF ok THEN "active" ELSE "failed"
      /\ timer' = starts
      /\ UNCHANGED <<enabled, installed>>

Next ==
  \/ Learn
  \/ \E ok \in BOOLEAN : TimerSave(ok) \/ Install(ok) \/ Upgrade(ok) \/ Remove(ok) \/ Disable(ok)
  \/ \E saved, next, ok \in BOOLEAN : Boot(saved, next, ok)

Spec == Init /\ [][Next]_vars

-----------------------------------------------------------------------------
\* NAP-TOOLS.md:52-53 "Upgrades não reiniciam o serviço para carregar um snapshot
\* mais antigo sobre o aprendizado atual" and configure-services:13 "start, not
\* restart: upgrading tools must not overwrite current learning": an upgrade never
\* takes back what was learned.
UpgradeKeepsLearning == [][\A ok \in BOOLEAN : Upgrade(ok) => live' >= live]_vars
=============================================================================
