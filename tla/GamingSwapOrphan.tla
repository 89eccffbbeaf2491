-------------------------- MODULE GamingSwapOrphan --------------------------
(***************************************************************************)
(* GamingSwap with a history of the old files a run has identified by what *)
(* the machine's configuration said of them.  Only the configuration that  *)
(* the migration itself rewrites can make a later run forget them.         *)
(***************************************************************************)
EXTENDS GamingSwap

VARIABLE identified  \* files that some run found in /etc/fstab or by their unit

orphanVars == <<vars, identified>>

OrphanInit == Init /\ identified = {}

Identify ==
  /\ Inventory
  /\ identified' = identified \cup (files' \cap (fstab \cup sunits))

OrphanNext ==
  \/ Identify
  \/ Next /\ ~Inventory /\ UNCHANGED identified

OrphanSpec == OrphanInit /\ [][OrphanNext]_orphanVars

-----------------------------------------------------------------------------
(* SWAP.md: the old files are identified by fstab and swap units, too, and *)
(* the migration only ends once they are deleted.  A file that any run so  *)
(* identified is gone when this run, or a later one, has succeeded.        *)
EveryOldFileGone ==
  pc = "done" => \A f \in identified \ {target} : sig[f] # "swap"
=============================================================================
