---------------------------- MODULE SnapshotStore ----------------------------
(***************************************************************************)
(* What the snapshot files of napctl promise to whoever restores them: a   *)
(* store of one snapshot, numbered in the order the saves wrote them, that *)
(* changes in one step, never goes back while the system runs, and that a  *)
(* crash can set back no further than the last save that completed.        *)
(***************************************************************************)
EXTENDS Naturals

VARIABLES
  visible,    \* number of the snapshot a restore would load now, 0 if none
  committed,  \* number of the snapshot of the last completed save
  boot        \* changes whenever the machine goes down

vars == <<visible, committed, boot>>

Init == visible = 0 /\ committed = 0 /\ boot \in BOOLEAN

(* A save replaces the snapshot.                                           *)
Write ==
  /\ visible' \in Nat /\ visible' > visible
  /\ UNCHANGED <<committed, boot>>

(* A save completes.                                                       *)
Commit ==
  /\ committed' = visible
  /\ UNCHANGED <<visible, boot>>

(* A crash may undo a save that has not completed, and no other.           *)
Crash ==
  /\ visible' \in committed .. visible
  /\ boot' = ~boot
  /\ UNCHANGED committed

Next == Write \/ Commit \/ Crash

Spec == Init /\ [][Next]_vars
=============================================================================
