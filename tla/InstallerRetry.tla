--------------------------- MODULE InstallerRetry ---------------------------
(***************************************************************************)
(* Installer when, from some time on, commands no longer fail, the user    *)
(* consents, nothing is interrupted and no other pacman runs: the user     *)
(* starts the script again until it succeeds.                              *)
(***************************************************************************)
EXTENDS Installer

VARIABLE calm    \* that time has come; it comes between two runs

retryVars == <<vars, calm>>

RetryInit == Init /\ calm = FALSE

Work == (Step \/ Refuse) /\ UNCHANGED calm

RetryNext ==
  \/ Work
  \/ ~calm /\ Disturbance /\ UNCHANGED calm
  \/ pc = "idle" /\ calm' = TRUE /\ UNCHANGED vars

(* The script takes its next step, and is started again.                   *)
RetrySpec == RetryInit /\ [][RetryNext]_retryVars /\ WF_retryVars(Work)

-----------------------------------------------------------------------------
(* What a pacman that was killed left, and no run of the script removes.   *)
Blocked == locked \/ New \cap Strays # {}

(* Wherever earlier runs were cut short, starting the script again ends in *)
(* a complete installation, and so does every later run, if a program that *)
(* updates the bootloader exists, unless pacman was killed in the middle   *)
(* and nobody has removed its lock and the files it had not registered.    *)
Recovers ==
  (<>calm /\ grubTool) =>
    []<>(Blocked \/ (outcome = "success" /\ pc = "idle" /\ Complete))
=============================================================================
