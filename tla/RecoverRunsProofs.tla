--------------------------- MODULE RecoverRunsProofs ---------------------------
(***************************************************************************)
(* Proofs of the safety properties of RecoverRuns, for any set of runs,    *)
(* any ages and any numbers of polls.                                      *)
(***************************************************************************)
EXTENDS RecoverRuns, TLAPS, FiniteSetTheorems

(* The steps at which requests about the current run are sent or awaited.  *)
Busy == {"cancel", "cancel-poll", "force-cancel", "force-cancel-poll", "again", "delete",
         "delete-poll", "unresolved"}

(* Requests are about the current run, which is stale and another one.     *)
Gated == (pc = "inspect" => cur # Self) /\ (pc \in Busy => Stale(cur) /\ cur # Self)

(* What is not active now has not been active for all of the pass.         *)
RestsNoted == \A r \in Run : status[r] # "active" => r \in rests

(* A run the pass is told of is taken up, or was at rest when it was       *)
(* listed.                                                                 *)
TakenUp ==
  pc \notin {"list", "failed"} =>
    \A r \in (Given \cup Listed) \ {Self} :
      r \in todo \/ r = cur \/ result[r] # "none" \/ r \in rests

(* A stale run is only reported as settled after it was seen at rest.      *)
ReportedAtRest ==
  \A r \in Run : Stale(r) =>
    result[r] \in {"none", "self-skipped", "unresolved", "inspect-failed"} \/ r \in rests

(* Only the own run is skipped.                                            *)
SkipsSelf == \A r \in Run : result[r] = "self-skipped" => r = Self

(* Between two runs none is being dealt with, at the end none is left, and *)
(* a poll is only made while attempts are left.                            *)
Control ==
  /\ pc \in {"list", "next", "end"} => cur = NoRun
  /\ pc = "end" => todo = {}
  /\ pc \in {"cancel-poll", "force-cancel-poll", "delete-poll"} => polls >= 1

IInv ==
  /\ TypeOK /\ OnlyStaleTouched /\ Gated /\ RestsNoted /\ TakenUp /\ ReportedAtRest
  /\ SkipsSelf /\ Control

-----------------------------------------------------------------------------

LEMMA InitIInv == Init => IInv
BY RunsAssumption DEF Init, IInv, TypeOK, OnlyStaleTouched, Gated, Busy, RestsNoted, TakenUp,
   ReportedAtRest, SkipsSelf, Control, Status, Result

USE DEF Busy, Stale

(* The end of the work on the current run, whatever the pass reports of it *)
(* that it saw.                                                            *)
LEMMA ReportStep ==
  ASSUME IInv, NEW q \in Result, Report(q), cur \in Run,
         pc \notin {"list", "next", "failed", "end"},
         q # "self-skipped", q # "none",
         Stale(cur) => q \in {"unresolved", "inspect-failed"} \/ cur \in rests
  PROVE  IInv'
<1> USE DEF Report, server, IInv
<1>1. TypeOK'
  BY RunsAssumption DEF TypeOK, Status
<1>2. OnlyStaleTouched' /\ Gated' /\ RestsNoted'
  BY DEF OnlyStaleTouched, Gated, RestsNoted
<1>3. TakenUp'
  BY RunsAssumption DEF TakenUp, TypeOK
<1>4. ReportedAtRest' /\ SkipsSelf'
  BY DEF ReportedAtRest, SkipsSelf, TypeOK
<1>5. Control'
  BY DEF Control
<1> QED BY <1>1, <1>2, <1>3, <1>4, <1>5

(* A step within the work on the current run that sends nothing.           *)
LEMMA PollAgainStep ==
  ASSUME IInv, NEW phase \in {"cancel-poll", "force-cancel-poll", "delete-poll"},
         NEW next \in {"force-cancel", "again", "unresolved"},
         pc = phase, PollAgain(next)
  PROVE  IInv'
<1> USE DEF PollAgain, server, IInv
<1>1. polls \in Nat /\ polls >= 1
  BY RunsAssumption DEF TypeOK, Control
<1>2. polls - 1 \in 0 .. CancelPolls \cup 0 .. DeletePolls
  BY <1>1, RunsAssumption DEF TypeOK
<1>3. TypeOK'
  BY <1>2 DEF TypeOK
<1>4. OnlyStaleTouched' /\ Gated' /\ RestsNoted'
  BY DEF OnlyStaleTouched, Gated, RestsNoted
<1>5. TakenUp' /\ ReportedAtRest' /\ SkipsSelf'
  BY DEF TakenUp, ReportedAtRest, SkipsSelf
<1>6. Control'
  BY <1>1 DEF Control
<1> QED BY <1>3, <1>4, <1>5, <1>6

LEMMA PollStep ==
  ASSUME IInv, NEW phase \in {"cancel-poll", "force-cancel-poll", "delete-poll"},
         NEW next \in {"force-cancel", "again", "unresolved"}, Poll(phase, next)
  PROVE  IInv'
<1>1. CASE PollAgain(next)
  BY <1>1, PollAgainStep DEF Poll
<1>2. CASE status[cur] # "active" /\ ~PollAgain(next)
  <2>1. PICK q \in {"cancel-resolved", "force-cancel-resolved", "delete-resolved"} : Report(q)
    BY <1>2 DEF Poll
  <2>2. cur \in Run /\ cur \in rests
    BY <1>2 DEF Poll, IInv, TypeOK, RestsNoted
  <2> QED BY <2>1, <2>2, ReportStep DEF Result, Poll
<1> QED BY <1>1, <1>2 DEF Poll

LEMMA InspectStep ==
  ASSUME IInv, Inspect PROVE IInv'
<1>1. cur \in Run /\ pc = "inspect"
  BY DEF Inspect, IInv, TypeOK
<1>2. CASE status[cur] = "gone" /\ Report("already-gone")
  BY <1>1, <1>2, ReportStep DEF Result, IInv, RestsNoted
<1>3. CASE status[cur] = "completed" /\ Report("already-terminal")
  BY <1>1, <1>3, ReportStep DEF Result, IInv, RestsNoted
<1>4. CASE ~Stale(cur) /\ Report("not-stale")
  BY <1>1, <1>4, ReportStep DEF Result
<1>5. CASE Report("inspect-failed")
  BY <1>1, <1>5, ReportStep DEF Result
<1>6. CASE /\ Stale(cur) /\ pc' = "cancel"
           /\ UNCHANGED <<server, todo, cur, polls, seen, result>>
  BY <1>1, <1>6 DEF IInv, server, TypeOK, OnlyStaleTouched, Gated, RestsNoted, TakenUp,
     ReportedAtRest, SkipsSelf, Control
<1> QED BY <1>2, <1>3, <1>4, <1>5, <1>6 DEF Inspect

(* What the server and others do to the runs, and what the pass does to    *)
(* its place in the list.                                                  *)
LEMMA NextIInv == IInv /\ [Next]_vars => IInv'
<1> SUFFICES ASSUME IInv, [Next]_vars PROVE IInv'
  OBVIOUS
<1> USE DEF server, IInv
<1>1. CASE List
  BY <1>1, RunsAssumption DEF List, TypeOK, OnlyStaleTouched, Gated, RestsNoted, TakenUp,
     ReportedAtRest, SkipsSelf, Control
<1>2. ASSUME NEW r \in Run, Take(r) PROVE IInv'
  <2>1. TypeOK'
    BY <1>2 DEF Take, TypeOK, Result
  <2>2. OnlyStaleTouched' /\ Gated' /\ RestsNoted'
    BY <1>2 DEF Take, OnlyStaleTouched, Gated, RestsNoted
  <2>3. TakenUp'
    BY <1>2, RunsAssumption DEF Take, TakenUp, TypeOK, Control
  <2>4. ReportedAtRest' /\ SkipsSelf'
    BY <1>2 DEF Take, ReportedAtRest, SkipsSelf, TypeOK
  <2>5. Control'
    BY <1>2 DEF Take, Control
  <2> QED BY <2>1, <2>2, <2>3, <2>4, <2>5
<1>3. CASE End
  BY <1>3 DEF End, TypeOK, OnlyStaleTouched, Gated, RestsNoted, TakenUp, ReportedAtRest,
     SkipsSelf, Control
<1>4. CASE Inspect
  BY <1>4, InspectStep
<1>5. ASSUME NEW endpoint \in {"cancel", "force-cancel"}, Cancel(endpoint) PROVE IInv'
  <2>1. TypeOK' /\ Control'
    BY <1>5, RunsAssumption DEF Cancel, TypeOK, Control
  <2>2. OnlyStaleTouched' /\ Gated'
    BY <1>5 DEF Cancel, OnlyStaleTouched, Gated
  <2>3. RestsNoted' /\ TakenUp' /\ ReportedAtRest' /\ SkipsSelf'
    BY <1>5 DEF Cancel, RestsNoted, TakenUp, ReportedAtRest, SkipsSelf
  <2> QED BY <2>1, <2>2, <2>3
<1>6. CASE Poll("cancel-poll", "force-cancel")
  BY <1>6, PollStep
<1>7. CASE Poll("force-cancel-poll", "again")
  BY <1>7, PollStep
<1>8. CASE FetchAgain
  BY <1>8 DEF FetchAgain, TypeOK, Status, OnlyStaleTouched, Gated, RestsNoted, TakenUp,
     ReportedAtRest, SkipsSelf, Control
<1>9. CASE Delete
  <2>1. TypeOK' /\ Control'
    BY <1>9, RunsAssumption DEF Delete, TypeOK, Control, Status
  <2>2. OnlyStaleTouched' /\ Gated'
    BY <1>9 DEF Delete, OnlyStaleTouched, Gated
  <2>3. RestsNoted'
    BY <1>9 DEF Delete, RestsNoted, TypeOK
  <2>4. TakenUp' /\ ReportedAtRest' /\ SkipsSelf'
    BY <1>9 DEF Delete, TakenUp, ReportedAtRest, SkipsSelf
  <2> QED BY <2>1, <2>2, <2>3, <2>4
<1>10. CASE Poll("delete-poll", "unresolved")
  BY <1>10, PollStep
<1>11. CASE Unresolved
  BY <1>11, ReportStep DEF Unresolved, Result, TypeOK
<1>12. CASE Abort
  <2>1. OnlyStaleTouched' /\ TypeOK'
    BY <1>12 DEF Abort, OnlyStaleTouched, TypeOK, Gated
  <2>2. Gated' /\ RestsNoted' /\ TakenUp' /\ ReportedAtRest' /\ SkipsSelf' /\ Control'
    BY <1>12 DEF Abort, Gated, RestsNoted, TakenUp, ReportedAtRest, SkipsSelf, Control
  <2> QED BY <2>1, <2>2
<1>13. ASSUME NEW r \in Run, Complete(r) \/ Rerun(r) \/ Remove(r) PROVE IInv'
  <2>1. TypeOK'
    BY <1>13 DEF Complete, Rerun, Remove, TypeOK, Status, script
  <2>2. RestsNoted'
    BY <1>13 DEF Complete, Rerun, Remove, RestsNoted, TypeOK, script
  <2>3. rests \subseteq rests' /\ UNCHANGED <<touched, script>>
    BY <1>13 DEF Complete, Rerun, Remove
  <2>4. OnlyStaleTouched' /\ Gated' /\ TakenUp' /\ ReportedAtRest' /\ SkipsSelf' /\ Control'
    BY <2>3 DEF OnlyStaleTouched, Gated, TakenUp, ReportedAtRest, SkipsSelf, Control, script
  <2> QED BY <2>1, <2>2, <2>4
<1>14. CASE UNCHANGED vars
  BY <1>14 DEF vars, script, TypeOK, OnlyStaleTouched, Gated, RestsNoted, TakenUp,
     ReportedAtRest, SkipsSelf, Control
<1> QED
  BY <1>1, <1>2, <1>3, <1>4, <1>5, <1>6, <1>7, <1>8, <1>9, <1>10, <1>11, <1>12, <1>13, <1>14
  DEF Next, PassStep

LEMMA AlwaysIInv == Spec => []IInv
BY InitIInv, NextIInv, PTL DEF Spec

-----------------------------------------------------------------------------
(* Every variable of the pass keeps its type; in particular its polls      *)
(* never run below zero.                                                   *)
THEOREM TypeCorrect == Spec => []TypeOK
BY AlwaysIInv, PTL DEF IInv

(* Whatever the server answers and the other actors do, recover_run()      *)
(* sends requests about stale runs only, and never about its own.          *)
THEOREM StaleOnly == Spec => []OnlyStaleTouched
BY AlwaysIInv, PTL DEF IInv

(* Exit status 0 of main() means that every stale run it was told of has   *)
(* been at rest since the pass began.                                      *)
THEOREM ZeroTruthful == Spec => []ZeroMeansRecovered
<1>1. IInv => ZeroMeansRecovered
  BY RunsAssumption DEF IInv, ZeroMeansRecovered, ExitZero, Control, TakenUp, ReportedAtRest,
     SkipsSelf, TypeOK
<1> QED BY <1>1, AlwaysIInv, PTL

-----------------------------------------------------------------------------
(* How many steps of the pass are left at most: so many for each run still *)
(* to take up, and what the phase of the current one leaves.               *)

PerRun == 2 * CancelPolls + DeletePolls + 7

Phase ==
  CASE pc = "next"              -> 1
    [] pc = "unresolved"        -> 2
    [] pc = "delete-poll"       -> polls + 2
    [] pc = "delete"            -> DeletePolls + 3
    [] pc = "again"             -> DeletePolls + 4
    [] pc = "force-cancel-poll" -> polls + DeletePolls + 4
    [] pc = "force-cancel"      -> CancelPolls + DeletePolls + 5
    [] pc = "cancel-poll"       -> polls + CancelPolls + DeletePolls + 5
    [] pc = "cancel"            -> 2 * CancelPolls + DeletePolls + 6
    [] pc = "inspect"           -> 2 * CancelPolls + DeletePolls + 7

StepsLeft ==
  IF pc \in {"end", "failed"} THEN 0
  ELSE IF pc = "list" THEN PerRun * Cardinality(Given \cup Listed) + 2
  ELSE PerRun * Cardinality(todo) + Phase

\* Every step of the pass is one step less, and nobody else takes it back.
Approaches ==
  [][ /\ PassStep \/ Abort => StepsLeft' < StepsLeft
      /\ ~(PassStep \/ Abort) => StepsLeft' = StepsLeft ]_vars

\* The pass deals with runs of the list only.
Tasks == IInv /\ todo \subseteq Given \cup Listed

LEMMA TaskStep == Tasks /\ [Next]_vars => Tasks'
<1> SUFFICES ASSUME Tasks, [Next]_vars PROVE (todo \subseteq Given \cup Listed)'
  BY NextIInv DEF Tasks
<1> QED
  BY DEF Tasks, Next, vars, PassStep, List, Take, End, Inspect, Cancel, Poll, PollAgain, Report,
     FetchAgain, Delete, Unresolved, Abort, Complete, Rerun, Remove, script, server

LEMMA AlwaysTasks == Spec => []Tasks
<1>1. Init => Tasks
  BY InitIInv DEF Init, Tasks
<1> QED BY <1>1, TaskStep, PTL DEF Spec

LEMMA Sizes ==
  ASSUME Tasks
  PROVE  /\ IsFiniteSet(todo) /\ Cardinality(todo) \in Nat
         /\ Cardinality(Given \cup Listed) \in Nat
         /\ PerRun \in Nat /\ CancelPolls \in Nat /\ DeletePolls \in Nat /\ polls \in Nat
         /\ \A S \in SUBSET (Given \cup Listed) :
              Cardinality(S) \in Nat /\ Cardinality(S) <= Cardinality(Given \cup Listed)
<1>1. IsFiniteSet(Given \cup Listed)
  BY RunsAssumption, FS_Union
<1>2. \A S \in SUBSET (Given \cup Listed) :
        IsFiniteSet(S) /\ Cardinality(S) \in Nat /\ Cardinality(S) <= Cardinality(Given \cup Listed)
  BY <1>1, FS_Subset, FS_CardinalityType
<1>3. PerRun \in Nat /\ CancelPolls \in Nat /\ DeletePolls \in Nat /\ polls \in Nat
  BY RunsAssumption DEF Tasks, IInv, TypeOK, PerRun
<1> QED BY <1>1, <1>2, <1>3, FS_CardinalityType DEF Tasks

LEMMA Products ==
  \A w, m, n \in Nat : /\ w * m \in Nat
                       /\ m <= n => w * m <= w * n
                       /\ n >= 1 => w * (n - 1) = w * n - w
OBVIOUS

LEMMA PhaseType ==
  ASSUME Tasks, pc \notin {"list", "end", "failed"}
  PROVE  Phase \in Nat /\ Phase >= 1 /\ (pc # "next" => Phase > 1)
<1>1. pc \in {"next", "inspect", "cancel", "cancel-poll", "force-cancel", "force-cancel-poll",
              "again", "delete", "delete-poll", "unresolved"}
  BY DEF Tasks, IInv, TypeOK
<1>2. CancelPolls \in Nat /\ DeletePolls \in Nat /\ polls \in Nat
  BY Sizes
<1>3. /\ pc = "next" => Phase = 1
      /\ pc = "unresolved" => Phase = 2
      /\ pc = "delete-poll" => Phase = polls + 2
      /\ pc = "delete" => Phase = DeletePolls + 3
      /\ pc = "again" => Phase = DeletePolls + 4
      /\ pc = "force-cancel-poll" => Phase = polls + DeletePolls + 4
      /\ pc = "force-cancel" => Phase = CancelPolls + DeletePolls + 5
      /\ pc = "cancel-poll" => Phase = polls + CancelPolls + DeletePolls + 5
      /\ pc = "cancel" => Phase = 2 * CancelPolls + DeletePolls + 6
      /\ pc = "inspect" => Phase = 2 * CancelPolls + DeletePolls + 7
  BY DEF Phase
<1> DEFINE p == Phase
<1>4. /\ polls + 2 \in Nat /\ polls + 2 > 1
      /\ DeletePolls + 3 \in Nat /\ DeletePolls + 3 > 1
      /\ DeletePolls + 4 \in Nat /\ DeletePolls + 4 > 1
      /\ polls + DeletePolls + 4 \in Nat /\ polls + DeletePolls + 4 > 1
      /\ CancelPolls + DeletePolls + 5 \in Nat /\ CancelPolls + DeletePolls + 5 > 1
      /\ polls + CancelPolls + DeletePolls + 5 \in Nat /\ polls + CancelPolls + DeletePolls + 5 > 1
      /\ 2 * CancelPolls + DeletePolls + 6 \in Nat /\ 2 * CancelPolls + DeletePolls + 6 > 1
      /\ 2 * CancelPolls + DeletePolls + 7 \in Nat /\ 2 * CancelPolls + DeletePolls + 7 > 1
  BY <1>2
<1>5. (p = 1 /\ pc = "next") \/ (p \in Nat /\ p > 1)
  <2> HIDE DEF p
  <2> QED BY <1>1, <1>3, <1>4 DEF p
<1>6. p \in Nat /\ p >= 1 /\ (pc # "next" => p > 1)
  <2> HIDE DEF p
  <2> QED BY <1>5
<1> QED BY <1>6

LEMMA LeftType == Tasks => StepsLeft \in Nat
<1> SUFFICES ASSUME Tasks PROVE StepsLeft \in Nat
  OBVIOUS
<1>1. PerRun * Cardinality(todo) \in Nat /\ PerRun * Cardinality(Given \cup Listed) \in Nat
  BY Sizes, Products
<1>2. pc \notin {"list", "end", "failed"} => Phase \in Nat
  BY PhaseType
<1> HIDE DEF PerRun, Phase
<1> QED BY <1>1, <1>2 DEF StepsLeft

LEMMA StepApproaches ==
  ASSUME Tasks, PassStep \/ Abort
  PROVE  StepsLeft' < StepsLeft
<1> DEFINE n == Cardinality(todo)  N == Cardinality(Given \cup Listed)  w == PerRun
<1>1. /\ n \in Nat /\ N \in Nat /\ w \in Nat /\ w * n \in Nat /\ w * N \in Nat
      /\ CancelPolls \in Nat /\ DeletePolls \in Nat /\ polls \in Nat
  BY Sizes, Products
<1>2. pc \in {"cancel-poll", "force-cancel-poll", "delete-poll"} => polls >= 1
  BY DEF Tasks, IInv, Control
<1>3. CASE List
  <2>1. todo' \in SUBSET (Given \cup Listed) /\ pc = "list" /\ pc' = "next"
    BY <1>3 DEF List
  <2>2. Cardinality(todo') \in Nat /\ Cardinality(todo') <= N
    BY <2>1, Sizes
  <2>3. w * Cardinality(todo') <= w * N /\ w * Cardinality(todo') \in Nat
    BY <1>1, <2>2, Products
  <2>4. StepsLeft' = w * Cardinality(todo') + 1 /\ StepsLeft = w * N + 2
    BY <2>1 DEF StepsLeft, Phase, PerRun
  <2> HIDE DEF w, N
  <2> QED BY <1>1, <2>3, <2>4
<1>4. ASSUME NEW r \in Run, Take(r) PROVE StepsLeft' < StepsLeft
  <2>1. /\ pc = "next" /\ pc' \in {"next", "inspect"} /\ todo' = todo \ {r} /\ r \in todo
    BY <1>4 DEF Take
  <2>2. Cardinality(todo') = n - 1 /\ n >= 1
    BY <2>1, Sizes, FS_RemoveElement, FS_EmptySet
  <2>3. w * (n - 1) = w * n - w
    BY <1>1, <2>2, Products
  <2>4. StepsLeft = w * n + 1
    BY <2>1 DEF StepsLeft, Phase
  <2>5. /\ pc' = "next" => StepsLeft' = w * (n - 1) + 1
        /\ pc' = "inspect" => StepsLeft' = w * (n - 1) + w
    BY <2>1, <2>2 DEF StepsLeft, Phase, PerRun
  <2>6. w >= 1
    BY RunsAssumption DEF PerRun
  <2> HIDE DEF w, n
  <2> QED BY <1>1, <2>1, <2>3, <2>4, <2>5, <2>6
<1>5. CASE End \/ Abort
  <2>1. StepsLeft' = 0
    BY <1>5 DEF End, Abort, StepsLeft
  <2>2. StepsLeft \in Nat /\ StepsLeft # 0
    <3>1. pc \notin {"end", "failed"}
      BY <1>5 DEF End, Abort
    <3>2. pc # "list" => Phase \in Nat /\ Phase >= 1
      BY <3>1, PhaseType
    <3> HIDE DEF w, n, N
    <3>3. StepsLeft = IF pc = "list" THEN w * N + 2 ELSE w * n + Phase
      BY <3>1 DEF StepsLeft, w, n, N
    <3> QED BY <1>1, <3>2, <3>3
  <2> QED BY <2>1, <2>2
\* The other steps are within the work on one run.
<1>6. ASSUME todo' = todo, pc \notin {"list", "end", "failed"}, pc' \notin {"list", "end", "failed"},
             Phase' < Phase, Phase \in Nat, Phase' \in Nat
      PROVE  StepsLeft' < StepsLeft
  <2>1. StepsLeft' = w * n + Phase' /\ StepsLeft = w * n + Phase
    BY <1>6 DEF StepsLeft, PerRun
  <2> DEFINE p == Phase  q == Phase'
  <2>2. p \in Nat /\ q \in Nat /\ q < p
    BY <1>6
  <2> HIDE DEF w, n, p, q
  <2>3. w * n + q < w * n + p
    BY <1>1, <2>2
  <2> QED BY <2>1, <2>3 DEF p, q
<1>7. ASSUME NEW q, Report(q), pc \notin {"list", "next", "end", "failed"} PROVE StepsLeft' < StepsLeft
  <2>1. todo' = todo /\ pc' = "next" /\ Phase' = 1
    BY <1>7 DEF Report, Phase
  <2>2. Phase \in Nat /\ Phase > 1
    BY <1>7, PhaseType
  <2> QED BY <1>6, <1>7, <2>1, <2>2
<1>8. ASSUME NEW phase, NEW next, Poll(phase, next),
             \/ phase = "cancel-poll" /\ next = "force-cancel"
             \/ phase = "force-cancel-poll" /\ next = "again"
             \/ phase = "delete-poll" /\ next = "unresolved"
      PROVE  StepsLeft' < StepsLeft
  <2>1. CASE PollAgain(next)
    <3>1. /\ pc = phase /\ todo' = todo /\ polls' = polls - 1
          /\ pc' = IF polls > 1 THEN pc ELSE next
      BY <1>8, <2>1 DEF Poll, PollAgain
    <3>2. Phase' < Phase /\ Phase \in Nat /\ Phase' \in Nat
      BY <1>1, <1>2, <1>8, <3>1 DEF Phase
    <3> QED BY <1>6, <1>8, <3>1, <3>2
  <2>2. CASE ~PollAgain(next)
    BY <1>7, <1>8, <2>2 DEF Poll
  <2> QED BY <2>1, <2>2
<1>9. CASE Inspect
  <2>1. pc = "inspect"
    BY <1>9 DEF Inspect
  <2>2. CASE pc' = "cancel" /\ todo' = todo
    <3>1. Phase' < Phase /\ Phase \in Nat /\ Phase' \in Nat
      BY <1>1, <2>1, <2>2 DEF Phase
    <3> QED BY <1>6, <2>1, <2>2, <3>1
  <2>3. CASE \E q : Report(q)
    BY <1>7, <2>1, <2>3
  <2> QED BY <1>9, <2>2, <2>3 DEF Inspect
<1>10. CASE Cancel("cancel") \/ Cancel("force-cancel") \/ FetchAgain \/ Delete
  <2>1. /\ todo' = todo
        /\ \/ pc = "cancel" /\ pc' = "cancel-poll" /\ polls' = CancelPolls
           \/ pc = "force-cancel" /\ pc' = "force-cancel-poll" /\ polls' = CancelPolls
           \/ pc = "again" /\ pc' = "delete"
           \/ pc = "delete" /\ pc' = "delete-poll" /\ polls' = DeletePolls
    BY <1>10 DEF Cancel, FetchAgain, Delete
  <2>2. Phase' < Phase /\ Phase \in Nat /\ Phase' \in Nat
    BY <1>1, <2>1 DEF Phase
  <2> QED BY <1>6, <2>1, <2>2
<1>11. CASE Unresolved
  BY <1>7, <1>11 DEF Unresolved
<1> QED
  BY <1>3, <1>4, <1>5, <1>8, <1>9, <1>10, <1>11 DEF PassStep

(* Every pass is finite, whatever the server answers and the runs do: of   *)
(* the at most 2 * CancelPolls + DeletePolls + 7 steps for each run it was *)
(* told of, and two more, each step of recover_run() takes one away, and   *)
(* nobody else adds one.  PassEnds is this and the fairness of FairSpec.   *)
THEOREM PassFinite == Spec => [](StepsLeft \in Nat) /\ Approaches
<1>1. Tasks /\ [Next]_vars =>
        [ /\ PassStep \/ Abort => StepsLeft' < StepsLeft
          /\ ~(PassStep \/ Abort) => StepsLeft' = StepsLeft ]_vars
  <2> SUFFICES ASSUME Tasks, Next
               PROVE  /\ PassStep \/ Abort => StepsLeft' < StepsLeft
                      /\ ~(PassStep \/ Abort) => StepsLeft' = StepsLeft
    OBVIOUS
  <2>1. ~(PassStep \/ Abort) => UNCHANGED script
    BY DEF Next, Complete, Rerun, Remove
  <2>2. UNCHANGED script => StepsLeft' = StepsLeft
    BY DEF script, StepsLeft, Phase, PerRun
  <2> QED BY <2>1, <2>2, StepApproaches
<1> QED BY <1>1, LeftType, AlwaysTasks, PTL DEF Spec, Approaches
=============================================================================
