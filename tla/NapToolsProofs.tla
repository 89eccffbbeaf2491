---------------------------- MODULE NapToolsProofs ----------------------------
(***************************************************************************)
(* Proofs of the safety properties of NapTools, and that a build ends, for *)
(* any history of upstream, any patch and any number of failures.  The     *)
(* first part is about the rebasing of a patch with any number of hunks:   *)
(* facts about sums and about hunks that follow one another go by the      *)
(* least counterexample.                                                   *)
(***************************************************************************)
EXTENDS NapTools, TLAPS, WellFoundedInduction, SequenceTheorems, FiniteSetTheorems

Below == {pair \in Nat \X Nat : pair[1] < pair[2]}

LEMMA BelowWellFounded == IsWellFoundedOn(Below, Nat)
BY NatLessThanWellFounded DEF OpToRel, Below

(* Every set of natural numbers but the empty one has a least member.      *)
LEMMA LeastNatural ==
  ASSUME NEW T \in SUBSET Nat, T # {}
  PROVE  \E x \in T : \A y \in T : x <= y
<1>1. PICK x \in T : \A y \in T : <<y, x>> \notin Below
  BY BelowWellFounded, WFMin
<1>2. \A y \in T : ~(y < x)
  BY <1>1 DEF Below
<1>3. \A y \in T : y \in Nat /\ x \in Nat
  OBVIOUS
<1> QED BY <1>2, <1>3

(* f has the growth of the file after each of the first n hunks.           *)
IsSum(f, n) ==
  f = [i \in 0..n |-> IF i = 0 THEN 0 ELSE f[i - 1] + Hunks[i].new - Hunks[i].old]

LEMMA HunksType ==
  /\ Len(Hunks) \in Nat /\ DOMAIN Hunks = 1..Len(Hunks)
  /\ \A i \in DOMAIN Hunks : Hunks[i].old \in Nat \ {0} /\ Hunks[i].new \in Nat
<1>1. Len(Hunks) \in Nat /\ DOMAIN Hunks = 1..Len(Hunks)
  BY NapToolsAssumption
<1>2. \A i \in DOMAIN Hunks : Hunks[i] \in [old : Nat \ {0}, new : Nat]
  BY NapToolsAssumption, <1>1, ElementOfSeq
<1> QED BY <1>1, <1>2

LEMMA SumExists ==
  ASSUME NEW n \in 0..Len(Hunks)
  PROVE  \E f \in [0..n -> Int] : IsSum(f, n)
<1> DEFINE Bad == {k \in 0..Len(Hunks) : ~\E f \in [0..k -> Int] : IsSum(f, k)}
<1>1. SUFFICES ASSUME Bad # {} PROVE FALSE
  OBVIOUS
<1>2. Bad \in SUBSET Nat
  BY HunksType
<1>3. PICK k \in Bad : \A l \in Bad : k <= l
  BY <1>1, <1>2, LeastNatural
<1>4. k \in 0..Len(Hunks) /\ ~\E f \in [0..k -> Int] : IsSum(f, k)
  OBVIOUS
<1>5. CASE k = 0
  <2> DEFINE f == [i \in 0..0 |-> 0]
  <2>1. f \in [0..k -> Int] /\ IsSum(f, k)
    BY <1>5 DEF IsSum
  <2> QED BY <1>4, <2>1
<1>6. CASE k # 0
  <2>1. k - 1 \in 0..Len(Hunks) /\ k - 1 \notin Bad /\ k \in 1..Len(Hunks)
    BY <1>2, <1>3, <1>4, <1>6, HunksType
  <2>2. PICK g \in [0..(k - 1) -> Int] : IsSum(g, k - 1)
    BY <2>1
  <2> DEFINE f == [i \in 0..k |-> IF i = k THEN g[k - 1] + Hunks[k].new - Hunks[k].old ELSE g[i]]
  <2>3. f \in [0..k -> Int]
    BY <2>1, HunksType
  <2>4. \A i \in 0..k : f[i] = IF i = 0 THEN 0 ELSE f[i - 1] + Hunks[i].new - Hunks[i].old
    <3> TAKE i \in 0..k
    <3>1. CASE i = k
      BY <3>1, <1>6, <2>1, HunksType
    <3>2. CASE i # k
      <4>1. i \in 0..(k - 1) /\ (i # 0 => i - 1 \in 0..(k - 1) /\ i - 1 # k)
        BY <3>2, <2>1, HunksType
      <4>2. g[i] = IF i = 0 THEN 0 ELSE g[i - 1] + Hunks[i].new - Hunks[i].old
        BY <2>2, <4>1 DEF IsSum
      <4>3. f[i] = g[i] /\ (i # 0 => f[i - 1] = g[i - 1])
        BY <3>2, <4>1
      <4> QED BY <4>2, <4>3
    <3> QED BY <3>1, <3>2
  <2>5. IsSum(f, k)
    <3> HIDE DEF f
    <3>1. f = [i \in 0..k |-> f[i]]
      BY <2>3
    <3> QED BY <2>4, <3>1 DEF IsSum
  <2> HIDE DEF f
  <2> QED BY <1>4, <2>3, <2>5
<1> QED BY <1>5, <1>6

LEMMA SumUnique ==
  ASSUME NEW n \in 0..Len(Hunks), NEW f, IsSum(f, n), NEW m \in 0..n, NEW g, IsSum(g, m)
  PROVE  g[m] = f[m]
<1> DEFINE Bad == {k \in 0..m : g[k] # f[k]}
<1>1. SUFFICES ASSUME Bad # {} PROVE FALSE
  BY HunksType
<1>2. Bad \in SUBSET Nat
  OBVIOUS
<1>3. PICK k \in Bad : \A l \in Bad : k <= l
  BY <1>1, <1>2, LeastNatural
<1>4. k \in 0..m /\ k \in 0..n /\ g[k] # f[k]
  BY HunksType
<1>5. /\ g[k] = IF k = 0 THEN 0 ELSE g[k - 1] + Hunks[k].new - Hunks[k].old
      /\ f[k] = IF k = 0 THEN 0 ELSE f[k - 1] + Hunks[k].new - Hunks[k].old
  BY <1>4 DEF IsSum
<1>6. k # 0 => k - 1 \in 0..m /\ k - 1 \notin Bad
  BY <1>3, <1>4, HunksType
<1>7. k # 0 => g[k - 1] = f[k - 1]
  BY <1>6
<1> QED BY <1>4, <1>5, <1>7

LEMMA GrowthSum ==
  ASSUME NEW n \in 0..Len(Hunks)
  PROVE  \E f \in [0..n -> Int] : IsSum(f, n) /\ Growth(n) = f[n]
<1> DEFINE sum == CHOOSE f : IsSum(f, n)
<1>1. PICK f \in [0..n -> Int] : IsSum(f, n)
  BY SumExists
<1>2. IsSum(sum, n)
  BY <1>1
<1>3. Growth(n) = sum[n]
  BY DEF Growth, IsSum
<1>4. sum[n] = f[n]
  BY <1>1, <1>2, SumUnique, HunksType
<1> QED BY <1>1, <1>3, <1>4

(* What the recursion of Growth computes.                                  *)
LEMMA GrowthStep ==
  /\ \A n \in 0..Len(Hunks) : Growth(n) \in Int
  /\ \A n \in 1..Len(Hunks) : Growth(n) = Growth(n - 1) + Hunks[n].new - Hunks[n].old
<1>1. \A n \in 0..Len(Hunks) : Growth(n) \in Int
  BY GrowthSum, HunksType
<1>2. ASSUME NEW n \in 1..Len(Hunks)
      PROVE  Growth(n) = Growth(n - 1) + Hunks[n].new - Hunks[n].old
  <2>1. n \in 0..Len(Hunks) /\ n - 1 \in 0..Len(Hunks) /\ n - 1 \in 0..n /\ n \in 0..n
    BY HunksType
  <2>2. PICK f \in [0..n -> Int] : IsSum(f, n) /\ Growth(n) = f[n]
    BY <2>1, GrowthSum
  <2>3. PICK g \in [0..(n - 1) -> Int] : IsSum(g, n - 1) /\ Growth(n - 1) = g[n - 1]
    BY <2>1, GrowthSum
  <2>4. g[n - 1] = f[n - 1]
    BY <2>1, <2>2, <2>3, SumUnique
  <2>5. f[n] = f[n - 1] + Hunks[n].new - Hunks[n].old
    <3>1. n # 0
      BY HunksType
    <3> QED BY <2>1, <2>2, <3>1 DEF IsSum
  <2> QED BY <2>2, <2>3, <2>4, <2>5
<1> QED BY <1>1, <1>2

(* The arithmetic of two adjacent hunks, and of three.                     *)
LEMMA ShiftedEnds ==
  ASSUME NEW a \in Nat, NEW b \in Nat, NEW growth \in Int, NEW old \in Nat, NEW new \in Nat,
         b >= a + old
  PROVE  a + old <= b /\ (a + growth) + new <= b + (growth + new - old)
OBVIOUS

LEMMA ChainedEnds ==
  ASSUME NEW a \in Int, NEW b \in Int, NEW c \in Int, NEW x \in Nat, NEW y \in Nat,
         a + x <= b, b + y <= c
  PROVE  a + x <= c
OBVIOUS

(* A rebased patch applies without overlap, before and after.              *)
LEMMA RebaseFits ==
  ASSUME NEW ref \in Refs, Rebase(ref) # None, NEW n \in DOMAIN Hunks
  PROVE  /\ ref.places[n] = {Rebase(ref)[n].from}
         /\ \A m \in 1..(n - 1) :
              /\ Rebase(ref)[m].from + Hunks[m].old <= Rebase(ref)[n].from
              /\ Rebase(ref)[m].to + Hunks[m].new <= Rebase(ref)[n].to
<1> DEFINE h == Rebase(ref)
<1>1. \A k \in DOMAIN Hunks : ref.places[k] = {Place(ref, k)} /\ Place(ref, k) \in Nat
  <2> TAKE k \in DOMAIN Hunks
  <2>1. Cardinality(ref.places[k]) = 1 /\ IsFiniteSet(ref.places[k]) /\ ref.places[k] \subseteq Nat
    BY NapToolsAssumption DEF Rebase
  <2>2. PICK line : ref.places[k] = {line}
    BY <2>1, FS_Singleton
  <2> QED BY <2>1, <2>2 DEF Place
<1>2. \A k \in DOMAIN Hunks :
        h[k].from = Place(ref, k) /\ h[k].to = Place(ref, k) + Growth(k - 1)
  BY DEF Rebase
<1>3. \A k \in DOMAIN Hunks : h[k].from \in Nat /\ h[k].to \in Int
  BY <1>1, <1>2, GrowthStep, HunksType
<1>4. ASSUME NEW k \in 2..Len(Hunks)
      PROVE  /\ h[k - 1].from + Hunks[k - 1].old <= h[k].from
             /\ h[k - 1].to + Hunks[k - 1].new <= h[k].to
  <2>1. k \in DOMAIN Hunks \ {1} /\ k - 1 \in DOMAIN Hunks /\ k - 1 \in 1..Len(Hunks)
    BY HunksType
  <2>2. Place(ref, k) >= Place(ref, k - 1) + Hunks[k - 1].old
    BY <2>1, <1>1, HunksType DEF Rebase
  <2>3. Growth(k - 1) = Growth(k - 2) + Hunks[k - 1].new - Hunks[k - 1].old
    BY <2>1, GrowthStep, HunksType
  <2>4. Growth(k - 1) \in Int /\ Growth(k - 2) \in Int
    BY <2>1, GrowthStep, HunksType
  <2> HIDE DEF h
  <2>5. (k - 1) - 1 = k - 2
    OBVIOUS
  <2>6. h[k].from = Place(ref, k) /\ h[k].to = Place(ref, k) + Growth(k - 1)
    BY <1>2, <2>1
  <2>7. h[k - 1].from = Place(ref, k - 1) /\ h[k - 1].to = Place(ref, k - 1) + Growth(k - 2)
    BY <1>2, <2>1, <2>5
  <2>8. Place(ref, k) \in Nat /\ Place(ref, k - 1) \in Nat
    BY <1>1, <2>1
  <2>9. Hunks[k - 1].old \in Nat /\ Hunks[k - 1].new \in Nat
    BY <2>1, HunksType
  <2>10. /\ Place(ref, k - 1) + Hunks[k - 1].old <= Place(ref, k)
         /\ (Place(ref, k - 1) + Growth(k - 2)) + Hunks[k - 1].new
              <= Place(ref, k) + (Growth(k - 2) + Hunks[k - 1].new - Hunks[k - 1].old)
    BY <2>2, <2>4, <2>8, <2>9, ShiftedEnds
  <2> QED BY <2>3, <2>6, <2>7, <2>10
<1> HIDE DEF h
<1>5. ASSUME NEW m \in 1..(n - 1)
      PROVE  h[m].from + Hunks[m].old <= h[n].from /\ h[m].to + Hunks[m].new <= h[n].to
  <2> DEFINE Fit(k) == h[m].from + Hunks[m].old <= h[k].from /\ h[m].to + Hunks[m].new <= h[k].to
             Bad == {k \in (m + 1)..Len(Hunks) : ~Fit(k)}
  <2>1. m \in DOMAIN Hunks /\ n \in (m + 1)..Len(Hunks) /\ m \in Nat /\ Len(Hunks) \in Nat
    BY HunksType
  <2>2. SUFFICES ASSUME Bad # {} PROVE FALSE
    BY <2>1
  <2>3. Bad \in SUBSET Nat
    BY <2>1
  <2>4. PICK k \in Bad : \A l \in Bad : k <= l
    BY <2>2, <2>3, LeastNatural
  <2>5. k \in (m + 1)..Len(Hunks) /\ ~Fit(k)
    OBVIOUS
  <2>6. k \in 2..Len(Hunks) /\ k - 1 \in DOMAIN Hunks /\ k \in DOMAIN Hunks
    BY <2>1, <2>5, HunksType
  <2>7. CASE k = m + 1
    BY <1>4, <2>1, <2>5, <2>6, <2>7
  <2>8. CASE k # m + 1
    <3>1. k - 1 \in (m + 1)..Len(Hunks) /\ k - 1 \notin Bad
      BY <2>1, <2>3, <2>4, <2>5, <2>8
    <3>2. /\ h[m].from + Hunks[m].old <= h[k - 1].from
          /\ h[m].to + Hunks[m].new <= h[k - 1].to
      BY <3>1
    <3>3. /\ h[k - 1].from + Hunks[k - 1].old <= h[k].from
          /\ h[k - 1].to + Hunks[k - 1].new <= h[k].to
      BY <1>4, <2>6
    <3>4. /\ h[m].from \in Nat /\ h[m].to \in Int /\ h[k].from \in Nat /\ h[k].to \in Int
          /\ h[k - 1].from \in Nat /\ h[k - 1].to \in Int
      BY <1>3, <2>1, <2>6
    <3>5. /\ Hunks[m].old \in Nat /\ Hunks[m].new \in Nat
          /\ Hunks[k - 1].old \in Nat /\ Hunks[k - 1].new \in Nat
      BY <2>1, <2>6, HunksType
    <3> HIDE DEF Fit, Bad
    <3>6. h[m].from + Hunks[m].old <= h[k].from
      BY <3>2, <3>3, <3>4, <3>5, ChainedEnds
    <3>7. h[m].to + Hunks[m].new <= h[k].to
      BY <3>2, <3>3, <3>4, <3>5, ChainedEnds
    <3> QED BY <2>5, <3>6, <3>7 DEF Fit
  <2> QED BY <2>7, <2>8
<1> QED BY <1>1, <1>2, <1>5 DEF h

-----------------------------------------------------------------------------
(* The inductive invariant.                                                *)

Both == {"patched", "local"}

(* What refresh() makes of a commit of the history, from step to step.     *)
Copied(c) == [commit |-> c, files |-> {}, hunks |-> None, manifest |-> None]

Patched(c, files) ==
  [commit |-> c, files |-> files, hunks |-> Adapted(upstream[c]), manifest |-> None]

Listed(c, files) ==
  [commit |-> c, files |-> files, hunks |-> Adapted(upstream[c]),
   manifest |-> [commit |-> c, installed |-> Both]]

Usable(c) ==
  /\ c \in 1..Newest
  /\ upstream[c].regular /\ upstream[c].complete /\ ~upstream[c].conflict
  /\ Adapted(upstream[c]) # None

(* A whole snapshot, in which somebody may have changed a file.            *)
Snapshot(tree) ==
  \E c \in 1..Newest, files \in {Both, Both \cup {"edited"}} :
    Usable(c) /\ tree = Listed(c, files)

(* The history has a head, no older than the one a build began with.       *)
History ==
  /\ upstream \in Seq(Refs) /\ Newest >= 1 /\ asked \in Nat /\ asked <= Newest
  /\ build \in [prepared : BOOLEAN, abi : BOOLEAN]

(* The output, and what was moved away for a new one, are whole.           *)
Outputs ==
  /\ output \in {None, Blocked} \/ Snapshot(output)
  /\ pc = "place" => previous = None \/ Snapshot(previous)

(* Until the first rename the output is the one the refresh found; between *)
(* the two it is set aside.                                                *)
Kept ==
  /\ pc \in Refreshing \ {"place"} => output = before
  /\ pc \in Refreshing \ {"begin", "place"} => output # Blocked
  /\ pc = "place" => previous = before /\ output = None

(* The commit being fetched is not older than the head at the beginning.   *)
Fetched ==
  pc \in {"fetch", "adapt", "local", "manifest", "away", "place", "record"} =>
    commit \in 1..Newest /\ commit >= asked

(* What each step of the refresh has made of the commit.                   *)
Staged ==
  /\ pc = "adapt" => stage = Copied(commit)
  /\ pc = "local" => stage = Patched(commit, {"patched"})
  /\ pc = "manifest" => stage = Patched(commit, Both)
  /\ pc \in {"away", "place"} => stage = Listed(commit, Both)
  /\ pc \in {"adapt", "local", "manifest", "away", "place"} =>
       upstream[commit].regular /\ upstream[commit].complete
  /\ pc \in {"local", "manifest", "away", "place"} => Adapted(upstream[commit]) # None
  /\ pc \in {"manifest", "away", "place"} => ~upstream[commit].conflict

(* What package() finds after prepare(), and after its check of the hashes. *)
Resolved ==
  /\ pc = "record" => output = Listed(commit, Both) /\ Usable(commit)
  /\ pc \in {"verify", "install"} /\ build.prepared =>
       Snapshot(output) /\ output.commit = record /\ record >= asked
  /\ pc = "install" => Snapshot(output) /\ output.files = Both

IInv ==
  /\ History /\ Outputs /\ Kept /\ Fetched /\ Staged /\ Resolved /\ PackagedAsResolved

-----------------------------------------------------------------------------

LEMMA InitIInv == Init => IInv
<1> SUFFICES ASSUME Init PROVE IInv
  OBVIOUS
<1>1. PICK ref \in Refs : upstream = <<ref>>
  BY DEF Init
<1>2. upstream \in Seq(Refs) /\ Len(upstream) = 1
  BY <1>1
<1> QED
  BY <1>2 DEF Init, IInv, History, Outputs, Kept, Fetched, Staged, Resolved, PackagedAsResolved,
     Newest, Refreshing

LEMMA PushStep == ASSUME IInv, NEW ref \in Refs, Push(ref) PROVE IInv'
<1>1. /\ upstream' \in Seq(Refs) /\ Newest' = Newest + 1 /\ Newest \in Nat
      /\ \A c \in 1..Newest : upstream'[c] = upstream[c]
  BY DEF IInv, History, Push, Newest
<1>2. \A c \in 1..Newest : c \in 1..Newest' /\ Adapted(upstream'[c]) = Adapted(upstream[c])
  BY <1>1
<1>3. \A c \in 1..Newest : Usable(c) => Usable(c)'
  BY <1>1, <1>2 DEF Usable
<1>4. \A c \in 1..Newest : \A files :
        /\ Listed(c, files)' = Listed(c, files)
        /\ Patched(c, files)' = Patched(c, files)
  BY <1>2 DEF Listed, Patched
<1>5. \A tree : Snapshot(tree) => Snapshot(tree)'
  BY <1>2, <1>3, <1>4 DEF Snapshot
<1>6. History' /\ Fetched'
  BY <1>1 DEF IInv, History, Fetched, Push
<1>7. Outputs'
  BY <1>5 DEF IInv, Outputs, Push
<1>8. Kept'
  BY DEF IInv, Kept, Push
<1>9. Staged'
  BY <1>1, <1>2, <1>4 DEF IInv, Staged, Fetched, Push, Copied
<1>10. Resolved'
  BY <1>3, <1>4, <1>5 DEF IInv, Resolved, Fetched, Push
<1>11. PackagedAsResolved'
  BY DEF IInv, PackagedAsResolved, Push
<1> QED BY <1>6, <1>7, <1>8, <1>9, <1>10, <1>11 DEF IInv

(* Every other step leaves the history alone.                              *)
LEMMA Unmoved ==
  ASSUME UNCHANGED upstream
  PROVE  /\ \A c : Usable(c)' = Usable(c)
         /\ \A c, files : Listed(c, files)' = Listed(c, files)
         /\ \A c, files : Patched(c, files)' = Patched(c, files)
         /\ \A tree : Snapshot(tree)' = Snapshot(tree)
         /\ Newest' = Newest
BY DEF Usable, Listed, Patched, Snapshot, Newest

LEMMA EditStep == ASSUME IInv, Edit PROVE IInv'
<1> USE Unmoved DEF Edit
<1>1. Snapshot(output)
  BY DEF IInv, Outputs
<1>2. PICK c \in 1..Newest, files \in {Both, Both \cup {"edited"}} :
        Usable(c) /\ output = Listed(c, files)
  BY <1>1 DEF Snapshot
<1>3. output' = Listed(c, files \cup {"edited"}) /\ files \cup {"edited"} = Both \cup {"edited"}
  BY <1>2 DEF Listed
<1>4. Snapshot(output') /\ output'.commit = output.commit
  BY <1>2, <1>3 DEF Snapshot, Listed
<1>5. pc # "install" /\ pc \notin Refreshing /\ pc # "record"
  BY DEF Ended, Refreshing
<1>6. History' /\ Fetched' /\ PackagedAsResolved'
  BY DEF IInv, History, Fetched, PackagedAsResolved
<1>7. Outputs' /\ Kept' /\ Staged'
  BY <1>4, <1>5 DEF Outputs, Kept, Staged, Refreshing
<1>8. Resolved'
  BY <1>4, <1>5 DEF IInv, Resolved
<1> QED BY <1>6, <1>7, <1>8 DEF IInv

LEMMA StartStep ==
  ASSUME IInv, NEW fresh \in BOOLEAN, NEW abi \in BOOLEAN, Start(fresh, abi) PROVE IInv'
<1> USE Unmoved DEF Start
<1>1. pc' = "begin" /\ History'
  BY DEF IInv, History, Newest
<1>2. Outputs'
  BY <1>1 DEF IInv, Outputs
<1>3. Kept' /\ Fetched' /\ Staged' /\ Resolved'
  BY <1>1 DEF Kept, Fetched, Staged, Resolved, Refreshing
<1>4. PackagedAsResolved'
  BY DEF IInv, PackagedAsResolved
<1> QED BY <1>1, <1>2, <1>3, <1>4 DEF IInv

LEMMA RepackageStep == ASSUME IInv, Repackage PROVE IInv'
<1> USE Unmoved DEF Repackage
<1>1. pc' = "verify" /\ History' /\ ~build'.prepared
  BY DEF IInv, History
<1>2. Outputs'
  BY <1>1 DEF IInv, Outputs
<1>3. Kept' /\ Fetched' /\ Staged' /\ Resolved'
  BY <1>1 DEF Kept, Fetched, Staged, Resolved, Refreshing
<1>4. PackagedAsResolved'
  BY DEF IInv, PackagedAsResolved
<1> QED BY <1>1, <1>2, <1>3, <1>4 DEF IInv

(* A build ends where it is, with the output it found or with the old one  *)
(* back in its place.                                                      *)
LEMMA EndStep ==
  ASSUME IInv, pc' \in Ended,
         output' = output \/ (pc = "place" /\ output' = previous),
         UNCHANGED <<upstream, package, build, asked>>
  PROVE  IInv'
<1> USE Unmoved
<1>1. History' /\ PackagedAsResolved'
  BY DEF IInv, History, PackagedAsResolved
<1>2. Outputs'
  BY DEF IInv, Outputs, Ended
<1>3. Kept' /\ Fetched' /\ Staged' /\ Resolved'
  BY DEF Kept, Fetched, Staged, Resolved, Refreshing, Ended
<1> QED BY <1>1, <1>2, <1>3 DEF IInv

LEMMA FailureStep == ASSUME IInv, Fail \/ Die PROVE IInv'
BY EndStep DEF Fail, Die, Ended

LEMMA RefusalStep ==
  ASSUME IInv,
         \/ BeginBlocked \/ FetchRefused \/ GiveUp \/ PatchRefused \/ LocalConflict
         \/ VerifyRefused \/ InstallRefused
  PROVE  IInv'
BY EndStep DEF BeginBlocked, FetchRefused, GiveUp, PatchRefused, LocalConflict, VerifyRefused,
   InstallRefused, Raise, Goes, Ended

-----------------------------------------------------------------------------

LEMMA BeginStep == ASSUME IInv, Begin PROVE IInv'
<1> USE Unmoved DEF Begin, Goes
<1>1. History' /\ Fetched' /\ PackagedAsResolved'
  BY DEF IInv, History, Fetched, PackagedAsResolved
<1>2. Outputs' /\ Kept' /\ Staged' /\ Resolved'
  BY DEF IInv, Outputs, Kept, Staged, Resolved, Refreshing
<1> QED BY <1>1, <1>2 DEF IInv

LEMMA QueryStep == ASSUME IInv, Query PROVE IInv'
<1> USE Unmoved DEF Query, Goes
<1>1. Newest \in 1..Newest /\ Newest >= asked
  <2>1. pc = "query" /\ Newest \in Nat /\ asked \in Nat /\ asked <= Newest
    BY DEF IInv, History, Newest
  <2>2. Newest >= 1
    BY DEF IInv, History, Newest
  <2> QED BY <2>1, <2>2
<1>2. History' /\ Fetched' /\ PackagedAsResolved'
  BY <1>1 DEF IInv, History, Fetched, PackagedAsResolved
<1>3. Outputs' /\ Kept' /\ Staged' /\ Resolved'
  BY DEF IInv, Outputs, Kept, Staged, Resolved, Refreshing
<1> QED BY <1>2, <1>3 DEF IInv

LEMMA RequestFailsStep == ASSUME IInv, RequestFails PROVE IInv'
<1> USE Unmoved DEF RequestFails
<1>1. History' /\ Fetched' /\ PackagedAsResolved'
  BY DEF IInv, History, Fetched, PackagedAsResolved
<1>2. Outputs' /\ Kept' /\ Staged' /\ Resolved'
  BY DEF IInv, Outputs, Kept, Staged, Resolved, Refreshing
<1> QED BY <1>1, <1>2 DEF IInv

LEMMA FetchStep == ASSUME IInv, Fetch PROVE IInv'
<1> USE Unmoved DEF Fetch, Goes
<1>1. History' /\ Fetched' /\ PackagedAsResolved'
  BY DEF IInv, History, Fetched, PackagedAsResolved
<1>2. Staged'
  BY DEF Staged, Copied
<1>3. Outputs' /\ Kept' /\ Resolved'
  BY DEF IInv, Outputs, Kept, Resolved, Refreshing
<1> QED BY <1>1, <1>2, <1>3 DEF IInv

LEMMA PatchStep == ASSUME IInv, Patch PROVE IInv'
<1> USE Unmoved DEF Patch, Goes
<1>1. History' /\ Fetched' /\ PackagedAsResolved'
  BY DEF IInv, History, Fetched, PackagedAsResolved
<1>2. stage = Copied(commit) /\ upstream[commit].regular /\ upstream[commit].complete
  BY DEF IInv, Staged
<1>3. stage' = Patched(commit, {"patched"}) /\ Adapted(upstream[commit]) # None
  BY <1>2 DEF Copied, Patched
<1>4. Staged'
  BY <1>2, <1>3 DEF Staged
<1>5. Outputs' /\ Kept' /\ Resolved'
  BY DEF IInv, Outputs, Kept, Resolved, Refreshing
<1> QED BY <1>1, <1>4, <1>5 DEF IInv

LEMMA AddLocalStep == ASSUME IInv, AddLocal PROVE IInv'
<1> USE Unmoved DEF AddLocal, Goes
<1>1. History' /\ Fetched' /\ PackagedAsResolved'
  BY DEF IInv, History, Fetched, PackagedAsResolved
<1>2. /\ stage = Patched(commit, {"patched"}) /\ Adapted(upstream[commit]) # None
      /\ upstream[commit].regular /\ upstream[commit].complete
  BY DEF IInv, Staged
<1>3. stage' = Patched(commit, Both) /\ ~upstream[commit].conflict
  BY <1>2 DEF Patched, Both
<1>4. Staged'
  BY <1>2, <1>3 DEF Staged
<1>5. Outputs' /\ Kept' /\ Resolved'
  BY DEF IInv, Outputs, Kept, Resolved, Refreshing
<1> QED BY <1>1, <1>4, <1>5 DEF IInv

LEMMA WriteManifestStep == ASSUME IInv, WriteManifest PROVE IInv'
<1> USE Unmoved DEF WriteManifest, Goes
<1>1. History' /\ Fetched' /\ PackagedAsResolved'
  BY DEF IInv, History, Fetched, PackagedAsResolved
<1>2. /\ stage = Patched(commit, Both) /\ Adapted(upstream[commit]) # None
      /\ upstream[commit].regular /\ upstream[commit].complete /\ ~upstream[commit].conflict
  BY DEF IInv, Staged
<1>3. stage' = Listed(commit, Both)
  BY <1>2 DEF Patched, Listed, Both
<1>4. Staged'
  BY <1>2, <1>3 DEF Staged
<1>5. Outputs' /\ Kept' /\ Resolved'
  BY DEF IInv, Outputs, Kept, Resolved, Refreshing
<1> QED BY <1>1, <1>4, <1>5 DEF IInv

LEMMA MoveAwayStep == ASSUME IInv, MoveAway PROVE IInv'
<1> USE Unmoved DEF MoveAway, Goes
<1>1. History' /\ Fetched' /\ PackagedAsResolved'
  BY DEF IInv, History, Fetched, PackagedAsResolved
<1>2. Staged' /\ Resolved'
  BY DEF IInv, Staged, Resolved
<1>3. output = before /\ output # Blocked
  BY DEF IInv, Kept, Refreshing
<1>4. Outputs' /\ Kept'
  BY <1>3 DEF IInv, Outputs, Kept, Refreshing
<1> QED BY <1>1, <1>2, <1>4 DEF IInv

LEMMA MoveIntoStep == ASSUME IInv, MoveInto PROVE IInv'
<1> USE Unmoved DEF MoveInto, Goes
<1>1. History' /\ Fetched' /\ PackagedAsResolved'
  BY DEF IInv, History, Fetched, PackagedAsResolved
<1>2. stage = Listed(commit, Both) /\ Usable(commit)
  BY DEF IInv, Staged, Fetched, Usable
<1>3. Snapshot(output')
  BY <1>2 DEF Snapshot, Usable
<1>4. Outputs' /\ Kept' /\ Staged' /\ Resolved'
  BY <1>2, <1>3 DEF Outputs, Kept, Staged, Resolved, Refreshing
<1> QED BY <1>1, <1>4 DEF IInv

LEMMA WriteRecordStep == ASSUME IInv, WriteRecord PROVE IInv'
<1> USE Unmoved DEF WriteRecord, Goes
<1>1. History' /\ PackagedAsResolved' /\ Outputs'
  BY DEF IInv, History, PackagedAsResolved, Outputs
<1>2. output = Listed(commit, Both) /\ Usable(commit) /\ commit >= asked
  BY DEF IInv, Resolved, Fetched
<1>3. Snapshot(output) /\ output.commit = commit
  BY <1>2 DEF Snapshot, Listed, Usable
<1>4. Kept' /\ Fetched' /\ Staged' /\ Resolved'
  BY <1>2, <1>3 DEF Kept, Fetched, Staged, Resolved, Refreshing
<1> QED BY <1>1, <1>4 DEF IInv

LEMMA VerifyStep == ASSUME IInv, Verify PROVE IInv'
<1> USE Unmoved DEF Verify, Goes
<1>1. History' /\ PackagedAsResolved' /\ Outputs'
  BY DEF IInv, History, PackagedAsResolved, Outputs
<1>2. Snapshot(output) /\ output.files = output.manifest.installed
  BY DEF IInv, Outputs, Intact
<1>3. output.files = Both
  BY <1>2 DEF Snapshot, Listed
<1>4. Kept' /\ Fetched' /\ Staged' /\ Resolved'
  BY <1>2, <1>3 DEF IInv, Kept, Fetched, Staged, Resolved, Refreshing
<1> QED BY <1>1, <1>4 DEF IInv

LEMMA InstallStep == ASSUME IInv, Install PROVE IInv'
<1> USE Unmoved DEF Install
<1>1. History' /\ Outputs'
  BY DEF IInv, History, Outputs
<1>2. Kept' /\ Fetched' /\ Staged' /\ Resolved'
  BY DEF Kept, Fetched, Staged, Resolved, Refreshing
<1>3. /\ output.files = Both
      /\ build.prepared => output.commit = record /\ record >= asked
  BY DEF IInv, Resolved
<1>4. PackagedAsResolved'
  BY <1>3 DEF PackagedAsResolved, Both
<1> QED BY <1>1, <1>2, <1>4 DEF IInv

LEMMA NextIInv == IInv /\ [Next]_vars => IInv'
<1> SUFFICES ASSUME IInv, [Next]_vars PROVE IInv'
  OBVIOUS
<1>1. CASE Refresh
  BY <1>1, BeginStep, QueryStep, RequestFailsStep, FetchStep, PatchStep, AddLocalStep,
     WriteManifestStep, MoveAwayStep, MoveIntoStep, WriteRecordStep, RefusalStep DEF Refresh
<1>2. CASE Package
  BY <1>2, VerifyStep, InstallStep, RefusalStep DEF Package
<1>3. CASE \E ref \in Refs : Push(ref)
  BY <1>3, PushStep
<1>4. CASE Edit \/ Repackage \/ \E fresh \in BOOLEAN, abi \in BOOLEAN : Start(fresh, abi)
  BY <1>4, EditStep, RepackageStep, StartStep
<1>5. CASE Fail \/ Die
  BY <1>5, FailureStep
<1>6. CASE UNCHANGED vars
  BY <1>6, Unmoved DEF vars, IInv, History, Outputs, Kept, Fetched, Staged, Resolved,
     PackagedAsResolved
<1> QED BY <1>1, <1>2, <1>3, <1>4, <1>5, <1>6 DEF Next

LEMMA AlwaysIInv == Spec => []IInv
BY InitIInv, NextIInv, PTL DEF Spec

-----------------------------------------------------------------------------
(* A package holds the files as they were resolved, never older ones than  *)
(* upstream had when its build began, and its log names their commit.      *)
THEOREM PackagesTruthful == Spec => []PackagedAsResolved
BY AlwaysIInv, PTL DEF IInv

(* Wherever refresh() fails or is killed, the output is one whole snapshot *)
(* under one contract, whose hunks do not overlap.                         *)
THEOREM OutputsWhole == Spec => []OutputWhole
<1>1. IInv => OutputWhole
  <2> SUFFICES ASSUME IInv, output \notin {None, Blocked}
               PROVE  LET ref == upstream[output.commit]
                      IN  /\ ref.regular /\ ref.complete /\ ~ref.conflict /\ ref.error = ref.import
                          /\ {"patched", "local"} \subseteq output.files
                          /\ output.manifest = [commit |-> output.commit,
                                                installed |-> {"patched", "local"}]
                          /\ HunksFit(output)
    BY DEF OutputWhole
  <2>1. PICK c \in 1..Newest, files \in {Both, Both \cup {"edited"}} :
          Usable(c) /\ output = Listed(c, files)
    BY DEF IInv, Outputs, Snapshot
  <2> DEFINE ref == upstream[c]
  <2>2. /\ output.commit = c /\ output.files = files /\ output.hunks = Adapted(ref)
        /\ output.manifest = [commit |-> c, installed |-> Both]
    BY <2>1 DEF Listed
  <2>3. ref \in Refs
    BY <2>1, ElementOfSeq DEF IInv, History, Newest
  <2>4. ref.error = ref.import /\ (Adapted(ref) = Reviewed \/ Adapted(ref) = Rebase(ref))
    BY <2>1 DEF Usable, Adapted
  <2>5. HunksFit(output)
    <3>1. CASE Adapted(ref) = Reviewed
      BY <2>2, <3>1 DEF HunksFit
    <3>2. CASE Adapted(ref) = Rebase(ref)
      <4>1. Rebase(ref) # None
        BY <2>1, <3>2 DEF Usable
      <4> QED BY <2>2, <2>3, <3>2, <4>1, RebaseFits DEF HunksFit
    <3> QED BY <2>4, <3>1, <3>2
  <2> QED BY <2>1, <2>2, <2>4, <2>5 DEF Usable, Both
<1> QED BY <1>1, AlwaysIInv, PTL

(* A refresh that fails leaves the output it found.                        *)
THEOREM SnapshotKept == Spec => LastSnapshotKept
<1>1. IInv /\ [Next]_vars =>
        [/\ pc \in Refreshing /\ pc' = "idle" => output' = before
         /\ pc \in Refreshing \ {"place"} /\ pc' = "killed" => output' = before]_vars
  <2> SUFFICES ASSUME IInv, Next, pc \in Refreshing,
                      pc' = "idle" \/ (pc' = "killed" /\ pc # "place")
               PROVE  output' = before
    BY DEF vars, Refreshing
  <2> USE DEF Kept, IInv, Refreshing
  <2>1. CASE Refresh
    BY <2>1 DEF Refresh, Begin, BeginBlocked, Query, Fetch, FetchRefused, RequestFails, GiveUp,
       Patch, PatchRefused, AddLocal, LocalConflict, WriteManifest, MoveAway, MoveInto, WriteRecord,
       Raise, Goes
  <2>2. CASE Package
    BY <2>2 DEF Package, Verify, VerifyRefused, Install, InstallRefused, Raise, Goes
  <2>3. CASE (\E r \in Refs : Push(r)) \/ Edit \/ Repackage
    BY <2>3 DEF Push, Edit, Repackage, Ended
  <2>4. CASE \E fresh \in BOOLEAN, abi \in BOOLEAN : Start(fresh, abi)
    BY <2>4 DEF Start, Ended
  <2>5. CASE Fail
    BY <2>5 DEF Fail
  <2>6. CASE Die
    BY <2>6 DEF Die
  <2> QED BY <2>1, <2>2, <2>3, <2>4, <2>5, <2>6 DEF Next
<1> QED BY <1>1, AlwaysIInv, PTL DEF Spec, LastSnapshotKept
-----------------------------------------------------------------------------
(* The types of the snapshots that refresh() builds.                       *)

LEMMA AdaptedType ==
  ASSUME NEW ref \in Refs
  PROVE  Adapted(ref) \in {None, Reviewed} \cup [DOMAIN Hunks -> [from : Nat, to : Int]]
<1>1. CASE Adapted(ref) = Rebase(ref) /\ Rebase(ref) # None
  <2> DEFINE placed == [n \in DOMAIN Hunks |->
                          [from |-> Place(ref, n), to |-> Place(ref, n) + Growth(n - 1)]]
  <2>1. Rebase(ref) = placed
    BY <1>1 DEF Rebase
  <2>2. ASSUME NEW n \in DOMAIN Hunks
        PROVE  Place(ref, n) \in Nat /\ Place(ref, n) + Growth(n - 1) \in Int
    <3>1. ref.places[n] = {Rebase(ref)[n].from}
      BY <1>1, RebaseFits
    <3>2. Place(ref, n) \in Nat
      BY <3>1, NapToolsAssumption DEF Place
    <3>3. n - 1 \in 0..Len(Hunks)
      BY HunksType
    <3> QED BY <3>2, <3>3, GrowthStep
  <2>3. placed \in [DOMAIN Hunks -> [from : Nat, to : Int]]
    BY <2>2
  <2> QED BY <1>1, <2>1, <2>3
<1>2. CASE Adapted(ref) \in {None, Reviewed}
  BY <1>2
<1> QED BY <1>1, <1>2 DEF Adapted

LEMMA TreeTypes ==
  ASSUME History, Newest <= MaxPushes + 1, NEW c \in 1..Newest
  PROVE  /\ Copied(c) \in Trees
         /\ \A files \in SUBSET {"patched", "local", "edited"} :
              Patched(c, files) \in Trees /\ Listed(c, files) \in Trees
<1>1. c \in 1..(MaxPushes + 1)
  BY NapToolsAssumption DEF History, Newest
<1>2. upstream[c] \in Refs
  BY ElementOfSeq DEF History, Newest
<1>3. Adapted(upstream[c]) \in {None, Reviewed} \cup [DOMAIN Hunks -> [from : Nat, to : Int]]
  BY <1>2, AdaptedType
<1>4. [commit |-> c, installed |-> Both] \in
        [commit : 1..(MaxPushes + 1), installed : SUBSET {"patched", "local"}]
  BY <1>1 DEF Both
<1> QED BY <1>1, <1>3, <1>4 DEF Copied, Patched, Listed, Trees

LEMMA SnapshotTypes ==
  ASSUME History, Newest <= MaxPushes + 1, NEW tree, Snapshot(tree)
  PROVE  tree \in Trees
BY TreeTypes DEF Snapshot, Both

LEMMA InitTypes == Init => TypeOK
BY NapToolsAssumption DEF Init, TypeOK, Newest, Attempts

LEMMA NextTypes == ASSUME IInv, TypeOK, [Next]_vars PROVE TypeOK'
<1> USE DEF TypeOK, Attempts
<1>1. History /\ Newest \in Nat
  BY DEF IInv, History
<1>2. CASE \E ref \in Refs : Push(ref)
  <2>1. Newest' = Newest + 1
    BY <1>1, <1>2 DEF Push, History, Newest
  <2>2. MaxPushes \in Nat /\ Newest <= MaxPushes
    BY <1>2, NapToolsAssumption DEF Push
  <2>3. Newest' \in 1..(MaxPushes + 1) /\ asked' \in 0..Newest'
    BY <1>1, <1>2, <2>1, <2>2 DEF Push
  <2>4. record' \in {None} \cup 1..Newest' /\ commit' \in {None} \cup 1..Newest'
    BY <1>1, <1>2, <2>1 DEF Push
  <2> QED BY <1>2, <2>3, <2>4 DEF Push
<1>3. CASE UNCHANGED vars
  BY <1>3 DEF vars, Newest
<1> DEFINE Rest == Edit \/ Repackage \/ (\E fresh \in BOOLEAN, abi \in BOOLEAN : Start(fresh, abi))
                   \/ Refresh \/ Package \/ Fail \/ Die
<1> DEFINE Types == /\ output' \in Trees \cup {None, Blocked}
                    /\ stage' \in Trees \cup {None} /\ previous' \in Trees \cup {None}
                    /\ record' \in {None} \cup 1..Newest /\ commit' \in {None} \cup 1..Newest
                    /\ attempt' \in 1..4 /\ asked' \in 0..Newest
                    /\ failures' \in 0..MaxFailures
<1>4. ASSUME UNCHANGED upstream, Types PROVE TypeOK'
  BY <1>4 DEF Newest
<1>5. CASE Edit
  <2>1. Snapshot(output)
    BY <1>5 DEF Edit, IInv, Outputs
  <2>2. PICK c \in 1..Newest, files \in {Both, Both \cup {"edited"}} : output = Listed(c, files)
    BY <2>1 DEF Snapshot
  <2>3. output' = Listed(c, files \cup {"edited"})
    BY <1>5, <2>2 DEF Edit, Listed
  <2>4. output' \in Trees
    BY <1>1, <2>3, TreeTypes DEF Both
  <2> QED BY <1>4, <1>5, <2>4 DEF Edit
<1>6. CASE Repackage
  BY <1>4, <1>6 DEF Repackage
<1>7. CASE \E fresh \in BOOLEAN, abi \in BOOLEAN : Start(fresh, abi)
  <2>1. Newest \in 0..Newest
    BY <1>1
  <2> QED BY <1>4, <1>7, <2>1 DEF Start
<1>8. CASE Fail \/ Die
  <2>1. failures + 1 \in 0..MaxFailures
    BY <1>8, NapToolsAssumption DEF Fail, Die
  <2> QED BY <1>4, <1>8, <2>1 DEF Fail, Die
<1>9. CASE Package
  BY <1>4, <1>9 DEF Package, Verify, VerifyRefused, Install, InstallRefused, Raise, Goes
<1>10. CASE Refresh
  <2> USE DEF Goes, Raise
  <2>1. CASE BeginBlocked \/ FetchRefused \/ GiveUp \/ PatchRefused \/ LocalConflict \/ Begin
    BY <1>4, <2>1 DEF BeginBlocked, FetchRefused, GiveUp, PatchRefused, LocalConflict, Begin
  <2>2. CASE Query
    BY <1>1, <1>4, <2>2 DEF Query
  <2>3. CASE RequestFails
    BY <1>4, <2>3 DEF RequestFails
  <2>4. CASE Fetch
    <3>1. commit \in 1..Newest /\ stage' = Copied(commit)
      BY <2>4 DEF Fetch, IInv, Fetched, Copied
    <3>2. stage' \in Trees
      BY <1>1, <3>1, TreeTypes
    <3> QED BY <1>4, <2>4, <3>2 DEF Fetch
  <2>5. CASE Patch
    <3>1. commit \in 1..Newest /\ stage = Copied(commit)
      BY <2>5 DEF Patch, IInv, Fetched, Staged
    <3>2. stage' = Patched(commit, {"patched"})
      BY <2>5, <3>1 DEF Patch, Copied, Patched
    <3>3. stage' \in Trees
      BY <1>1, <3>1, <3>2, TreeTypes
    <3> QED BY <1>4, <2>5, <3>3 DEF Patch
  <2>6. CASE AddLocal
    <3>1. commit \in 1..Newest /\ stage = Patched(commit, {"patched"})
      BY <2>6 DEF AddLocal, IInv, Fetched, Staged
    <3>2. stage' = Patched(commit, Both)
      BY <2>6, <3>1 DEF AddLocal, Patched, Both
    <3>3. stage' \in Trees
      BY <1>1, <3>1, <3>2, TreeTypes DEF Both
    <3> QED BY <1>4, <2>6, <3>3 DEF AddLocal
  <2>7. CASE WriteManifest
    <3>1. commit \in 1..Newest /\ stage = Patched(commit, Both)
      BY <2>7 DEF WriteManifest, IInv, Fetched, Staged
    <3>2. stage' = Listed(commit, Both)
      BY <2>7, <3>1 DEF WriteManifest, Patched, Listed, Both
    <3>3. stage' \in Trees
      BY <1>1, <3>1, <3>2, TreeTypes DEF Both
    <3> QED BY <1>4, <2>7, <3>3 DEF WriteManifest
  <2>8. CASE MoveAway
    <3>1. output \in Trees \cup {None}
      BY <2>8 DEF MoveAway, IInv, Kept, Refreshing
    <3> QED BY <1>4, <2>8, <3>1 DEF MoveAway
  <2>9. CASE MoveInto
    BY <1>4, <2>9 DEF MoveInto
  <2>10. CASE WriteRecord
    BY <1>4, <2>10 DEF WriteRecord
  <2> QED BY <1>10, <2>1, <2>2, <2>3, <2>4, <2>5, <2>6, <2>7, <2>8, <2>9, <2>10 DEF Refresh
<1> QED BY <1>2, <1>3, <1>5, <1>6, <1>7, <1>8, <1>9, <1>10 DEF Next

(* Whatever fails or is killed, the output, the staged copy and the log are *)
(* of commits upstream had, with hunks at lines of a file, and no request  *)
(* is made a fifth time.                                                   *)
THEOREM TypeCorrect == Spec => []TypeOK
<1>1. IInv /\ TypeOK /\ [Next]_vars => TypeOK'
  BY NextTypes
<1> QED BY InitTypes, <1>1, AlwaysIInv, PTL DEF Spec
-----------------------------------------------------------------------------
(* A build ends.                                                           *)

(* The most steps refresh() and package() still take: one for each pc, and  *)
(* three more for each request that may be repeated.                       *)
StepsLeft ==
  CASE pc = "begin"    -> 17
    [] pc = "query"    -> 17 - attempt
    [] pc = "fetch"    -> 13 - attempt
    [] pc = "adapt"    -> 8
    [] pc = "local"    -> 7
    [] pc = "manifest" -> 6
    [] pc = "away"     -> 5
    [] pc = "place"    -> 4
    [] pc = "record"   -> 3
    [] pc = "verify"   -> 2
    [] pc = "install"  -> 1
    [] OTHER           -> 0

Nearer ==
  [][/\ Refresh \/ Package => StepsLeft' < StepsLeft
     /\ pc \notin Ended => StepsLeft' <= StepsLeft]_vars

LEMMA LeftBounds == ASSUME TypeOK PROVE StepsLeft \in 0..17
BY DEF TypeOK, Attempts, StepsLeft

LEMMA BuildStep == ASSUME TypeOK, TypeOK', Refresh \/ Package PROVE StepsLeft' < StepsLeft
<1>1. attempt \in 1..4 /\ attempt' \in 1..4
  BY DEF TypeOK, Attempts
<1> USE DEF StepsLeft, Goes, Raise
<1>2. CASE Begin \/ BeginBlocked \/ Query \/ Fetch \/ FetchRefused
  BY <1>1, <1>2 DEF Begin, BeginBlocked, Query, Fetch, FetchRefused
<1>3. CASE RequestFails \/ GiveUp
  BY <1>1, <1>3 DEF RequestFails, GiveUp, Attempts
<1>4. CASE Patch \/ PatchRefused \/ AddLocal \/ LocalConflict \/ WriteManifest
  BY <1>4 DEF Patch, PatchRefused, AddLocal, LocalConflict, WriteManifest
<1>5. CASE MoveAway \/ MoveInto \/ WriteRecord \/ Package
  BY <1>5 DEF MoveAway, MoveInto, WriteRecord, Package, Verify, VerifyRefused, Install,
     InstallRefused
<1> QED BY <1>2, <1>3, <1>4, <1>5 DEF Refresh

(* Every build ends, whatever upstream commits, however often a request is *)
(* repeated and whatever fails: it has at most 17 steps to take, each step *)
(* of refresh() and package() takes one away, and nothing else that happens*)
(* during a build adds one.  BuildEnds is this and the fairness of Spec.   *)
THEOREM BuildFinite == Spec => [](StepsLeft \in 0..17) /\ Nearer
<1>1. TypeOK /\ TypeOK' /\ [Next]_vars =>
        [/\ Refresh \/ Package => StepsLeft' < StepsLeft
         /\ pc \notin Ended => StepsLeft' <= StepsLeft]_vars
  <2> SUFFICES ASSUME TypeOK, TypeOK', Next
               PROVE  /\ Refresh \/ Package => StepsLeft' < StepsLeft
                      /\ pc \notin Ended => StepsLeft' <= StepsLeft
    OBVIOUS
  <2>1. StepsLeft \in 0..17 /\ StepsLeft' \in 0..17
    <3>1. StepsLeft' \in 0..17
      BY DEF TypeOK, Attempts, StepsLeft
    <3> QED BY <3>1, LeftBounds
  <2>2. Refresh \/ Package => StepsLeft' < StepsLeft
    BY BuildStep
  <2>3. CASE (\E ref \in Refs : Push(ref)) \/ Edit
    BY <2>1, <2>2, <2>3 DEF Push, Edit, StepsLeft
  <2>4. CASE Fail \/ Die
    <3>1. StepsLeft' = 0
      BY <2>4 DEF Fail, Die, StepsLeft
    <3> QED BY <2>1, <2>2, <3>1
  <2>5. CASE (\E fresh \in BOOLEAN, abi \in BOOLEAN : Start(fresh, abi)) \/ Repackage
    BY <2>2, <2>5 DEF Start, Repackage
  <2> QED BY <2>1, <2>2, <2>3, <2>4, <2>5 DEF Next
<1>2. TypeOK => StepsLeft \in 0..17
  BY LeftBounds
<1> QED BY <1>1, <1>2, TypeCorrect, PTL DEF Spec, Nearer
===============================================================================
