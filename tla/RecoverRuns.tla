----------------------------- MODULE RecoverRuns -----------------------------
(***************************************************************************)
(* recover-actions-runs.py: gets GitHub Actions runs out of a state in     *)
(* which they are stuck.                                                   *)
(*                                                                         *)
(* One pass lists the runs that have not completed and takes them one by   *)
(* one: a run that is old enough is cancelled, force-cancelled and finally *)
(* deleted, with some polls of its status after each request.  Meanwhile   *)
(* runs complete, are started again and are removed by others; a request   *)
(* that fails is repeated by request(), so it may have had its effect      *)
(* never, once or more often, and the script does not look at the answer   *)
(* but polls.                                                              *)
(***************************************************************************)
EXTENDS Naturals, FiniteSets

CONSTANTS
  Run,
  Self,          \* the run the script is part of
  Given,         \* the runs named by --run-id
  Listed,        \* the runs on the first ten pages of the server's list
  Old,           \* runs created more than --stale-minutes before the pass
  CancelPolls,   \* polls after a cancellation: 6
  DeletePolls,   \* polls after a deletion: 3
  NoRun

ASSUME RunsAssumption ==
  /\ Self \in Run /\ Given \subseteq Run /\ Listed \subseteq Run /\ Old \subseteq Run
  /\ NoRun \notin Run
  /\ IsFiniteSet(Given) /\ IsFiniteSet(Listed)
  /\ CancelPolls \in Nat \ {0} /\ DeletePolls \in Nat \ {0}

VARIABLES
  status,     \* what the server knows of each run
  restarted,  \* runs that were started again, during the pass or shortly before
  rests,      \* runs that were not active at some time since the pass began
  touched,    \* runs that got a request to cancel or delete them
  pc, todo, cur, polls, seen,  \* locals of the pass; seen: the status it last knew
  result      \* what the pass reports of each run

server == <<status, restarted, rests, touched>>
script == <<pc, todo, cur, polls, seen, result>>
vars   == <<server, script>>

Status == {"active", "completed", "gone"}

Result == {"none", "self-skipped", "already-gone", "inspect-failed", "already-terminal",
           "not-stale", "cancel-resolved", "force-cancel-resolved", "delete-resolved",
           "unresolved"}

TypeOK ==
  /\ status \in [Run -> Status]
  /\ restarted \subseteq Run /\ rests \subseteq Run /\ touched \subseteq Run
  /\ pc \in {"list", "next", "inspect", "cancel", "cancel-poll", "force-cancel",
             "force-cancel-poll", "again", "delete", "delete-poll", "unresolved", "failed", "end"}
  /\ todo \subseteq Run
  /\ cur \in Run \cup {NoRun}
  /\ pc \notin {"list", "next", "failed", "end"} => cur \in Run
  /\ polls \in 0 .. CancelPolls \cup 0 .. DeletePolls
  /\ seen \in Status
  /\ result \in [Run -> Result]

Init ==
  /\ status \in [Run -> Status] /\ status[Self] = "active"
  /\ restarted \in SUBSET {r \in Run : status[r] = "active"}
  /\ rests = {r \in Run : status[r] # "active"}
  /\ touched = {}
  /\ pc = "list" /\ todo = {} /\ cur = NoRun /\ polls = 0 /\ seen = "active"
  /\ result = [r \in Run |-> "none"]

-----------------------------------------------------------------------------
(* The pass.                                                               *)

(* list_active_runs() and the runs given on the command line.              *)
List ==
  /\ pc = "list"
  /\ todo' = Given \cup {r \in Listed : status[r] = "active"}
  /\ pc' = "next"
  /\ UNCHANGED <<server, cur, polls, seen, result>>

(* The pass is over with the current run.                                  *)
Report(r) ==
  /\ result' = [result EXCEPT ![cur] = r]
  /\ pc' = "next" /\ cur' = NoRun /\ polls' = 0 /\ seen' = "active"
  /\ UNCHANGED <<server, todo>>

Take(r) ==
  /\ pc = "next" /\ r \in todo
  /\ todo' = todo \ {r}
  /\ IF r = Self
       THEN /\ result' = [result EXCEPT ![r] = "self-skipped"]
            /\ UNCHANGED <<pc, cur>>
       ELSE pc' = "inspect" /\ cur' = r /\ UNCHANGED result
  /\ UNCHANGED <<server, polls, seen>>

End ==
  /\ pc = "next" /\ todo = {}
  /\ pc' = "end"
  /\ UNCHANGED <<server, todo, cur, polls, seen, result>>

(* The age of a run counts from its creation.                              *)
Stale(r) == r \in Old

(* Mutant: the age only decides about deletion.                            *)
InspectAnyAge ==
  /\ pc = "inspect"
  /\ \/ status[cur] = "gone" /\ Report("already-gone")
     \/ status[cur] = "completed" /\ Report("already-terminal")
     \/ Report("inspect-failed")
     \/ /\ status[cur] = "active" /\ pc' = "cancel"
        /\ UNCHANGED <<server, todo, cur, polls, seen, result>>

Inspect ==
  /\ pc = "inspect"
  /\ \/ status[cur] = "gone" /\ Report("already-gone")
     \/ status[cur] = "completed" /\ Report("already-terminal")
     \/ status[cur] = "active" /\ ~Stale(cur) /\ Report("not-stale")
     \/ Report("inspect-failed")
     \/ /\ status[cur] = "active" /\ Stale(cur) /\ pc' = "cancel"
        /\ UNCHANGED <<server, todo, cur, polls, seen, result>>

(* A cancellation the server accepts ends the run sooner or later; it may  *)
(* get lost or be refused, as its answer is not looked at.                 *)
Cancel(endpoint) ==
  /\ pc = endpoint
  /\ touched' = touched \cup {cur}
  /\ pc' = IF endpoint = "cancel" THEN "cancel-poll" ELSE "force-cancel-poll"
  /\ polls' = CancelPolls
  /\ UNCHANGED <<status, restarted, rests, todo, cur, seen, result>>

(* Mutant: a poll that sees nothing is not counted.                        *)
KeepPolling(next) ==
  /\ UNCHANGED <<server, polls, pc, todo, cur, seen, result>>

(* Mutant: running out of polls counts as the end of the run.              *)
GiveUpResolved(next) ==
  IF polls > 1
    THEN polls' = polls - 1 /\ UNCHANGED <<server, pc, todo, cur, seen, result>>
    ELSE Report("cancel-resolved")

(* Mutant: one poll more than there are attempts.                          *)
PollOnceMore(next) ==
  /\ polls' = polls - 1
  /\ pc' = IF polls' >= 0 THEN pc ELSE next
  /\ UNCHANGED <<server, todo, cur, seen, result>>

(* A poll that fails or sees the run active is repeated or gives up.       *)
PollAgain(next) ==
  /\ polls' = polls - 1
  /\ pc' = IF polls > 1 THEN pc ELSE next
  /\ UNCHANGED <<server, todo, cur, seen, result>>

Poll(phase, next) ==
  /\ pc = phase
  /\ \/ /\ status[cur] # "active"
        /\ Report(CASE phase = "cancel-poll" -> "cancel-resolved"
                    [] phase = "force-cancel-poll" -> "force-cancel-resolved"
                    [] phase = "delete-poll" -> "delete-resolved")
     \/ PollAgain(next)

(* The run is fetched once more, for its age; when that fails, or the run  *)
(* is gone, what is known from the inspection is used.                     *)
FetchAgain ==
  /\ pc = "again"
  /\ seen' \in {"active", IF status[cur] = "gone" THEN "active" ELSE status[cur]}
  /\ pc' = "delete"
  /\ UNCHANGED <<server, todo, cur, polls, result>>

(* The server refuses to delete a run that has not completed.              *)
Delete ==
  /\ pc = "delete"
  /\ touched' = touched \cup {cur}
  /\ \/ status[cur] = "completed" /\ status' = [status EXCEPT ![cur] = "gone"]
     \/ UNCHANGED status
  /\ pc' = "delete-poll"
  /\ polls' = DeletePolls
  /\ UNCHANGED <<restarted, rests, todo, cur, seen, result>>

Unresolved ==
  /\ pc = "unresolved"
  /\ Report("unresolved")

(* The list cannot be had, a connection breaks in a way that request()     *)
(* does not catch, or the workflow's time is up: the pass ends without a   *)
(* report, its last request possibly sent.                                 *)
Abort ==
  /\ pc \notin {"end", "failed"}
  /\ pc' = "failed"
  /\ touched' \in {touched, touched \cup (IF pc \in {"cancel", "force-cancel"} THEN {cur} ELSE {})}
  /\ UNCHANGED <<status, restarted, rests, todo, cur, polls, seen, result>>

PassStep ==
  \/ List \/ (\E r \in Run : Take(r)) \/ End
  \/ Inspect \/ Cancel("cancel") \/ Cancel("force-cancel")
  \/ Poll("cancel-poll", "force-cancel") \/ Poll("force-cancel-poll", "again")
  \/ FetchAgain \/ Delete
  \/ Poll("delete-poll", "unresolved") \/ Unresolved

-----------------------------------------------------------------------------
(* The runs, as other passes, users and the server change them.            *)

(* A run completes, by itself or because it was cancelled.                 *)
Complete(r) ==
  /\ r # Self /\ status[r] = "active"
  /\ status' = [status EXCEPT ![r] = "completed"]
  /\ restarted' = restarted \ {r}
  /\ rests' = rests \cup {r}
  /\ UNCHANGED <<touched, script>>

(* Somebody starts a run again: it keeps the time of its creation.         *)
Rerun(r) ==
  /\ status[r] = "completed"
  /\ status' = [status EXCEPT ![r] = "active"]
  /\ restarted' = restarted \cup {r}
  /\ UNCHANGED <<rests, touched, script>>

(* Somebody else deletes a run.                                            *)
Remove(r) ==
  /\ status[r] = "completed"
  /\ status' = [status EXCEPT ![r] = "gone"]
  /\ UNCHANGED <<restarted, rests, touched, script>>

Next ==
  \/ PassStep \/ Abort
  \/ \E r \in Run : Complete(r) \/ Rerun(r) \/ Remove(r)

Spec == Init /\ [][Next]_vars

(* The script takes its next step: every request has a timeout.            *)
FairSpec == Spec /\ WF_vars(PassStep)

-----------------------------------------------------------------------------
(* Properties.                                                             *)

(* The exit status of main().                                              *)
ExitZero ==
  pc = "end" /\ \A r \in Run : result[r] \notin {"unresolved", "inspect-failed"}

(* A pass that ends with status 0 has seen every stale run it was told of   *)
(* at rest, but its own: none is stuck as the pass found it.               *)
ZeroMeansRecovered ==
  ExitZero => \A r \in (Given \cup Listed) \ {Self} : Stale(r) => r \in rests

(* The pass asks for the cancellation or deletion of stale runs only, and  *)
(* never of its own.                                                       *)
OnlyStaleTouched ==
  \A r \in touched : Stale(r) /\ r # Self

(* Whatever the server answers and the runs do, the pass ends.             *)
PassEnds == <>(pc \in {"end", "failed"})

(* "A recovery pass must never disrupt a healthy new build."               *)
HealthySpared ==
  [][\A r \in touched' \ touched : r \notin restarted]_vars
=============================================================================
