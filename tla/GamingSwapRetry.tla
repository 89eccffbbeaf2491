--------------------------- MODULE GamingSwapRetry ---------------------------
(***************************************************************************)
(* GamingSwap when, from some time on, calls no longer fail, nothing is    *)
(* interrupted and nobody else activates swap files: the package hook and  *)
(* the administrator run the migration again, as SWAP.md asks.             *)
(***************************************************************************)
EXTENDS GamingSwap

VARIABLE calm    \* that time has come; it comes between two runs

retryVars == <<vars, calm>>

RetryInit == Init /\ calm = FALSE

Work == (Step \/ Refuse) /\ UNCHANGED calm

RetryNext ==
  \/ Work
  \/ ~calm /\ Disturbance /\ UNCHANGED calm
  \/ pc = "idle" /\ calm' = TRUE /\ UNCHANGED vars

(* A run in progress takes its next step, and a run follows another.       *)
RetrySpec == RetryInit /\ [][RetryNext]_retryVars /\ WF_retryVars(Work)

-----------------------------------------------------------------------------
(* A file that has no swap signature where one is expected: the migration  *)
(* leaves it alone and refuses to run until the administrator removes it.  *)
Blocked == \E f \in Known \cup Managed \cup fstab \cup loaded : sig[f] = "unsigned"

(* From every state that failures, kills and crashes left behind, running  *)
(* the migration again completes it, and so does every later run, unless a *)
(* file without signature is in the way.                                   *)
Converges == <>calm => []<>(pc = "done" \/ Blocked)
=============================================================================
