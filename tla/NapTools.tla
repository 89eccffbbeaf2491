------------------------------- MODULE NapTools -------------------------------
(***************************************************************************)
(* The Nap tools of a kernel package.  prepare() of the PKGBUILD fetches   *)
(* the head of the upstream branch into a temporary directory, adapts it   *)
(* and renames it into the build directory (refresh-tools.py); package()   *)
(* installs that snapshot (install-tools.py).  Upstream moves at any time, *)
(* requests fail, and the build may be interrupted or killed anywhere.     *)
(*                                                                         *)
(* A commit is its position in upstream's history.  A directory of tools   *)
(* is [commit, files, hunks, manifest]: the commit it was copied from, what*)
(* was done to its files since (their hashes tell that apart), the hunk    *)
(* headers of the integration patch that came with it, and its UPSTREAM.json*)
(***************************************************************************)
EXTENDS Integers, Sequences, FiniteSets

CONSTANTS None, Blocked,  \* nothing; a link or a file where the output should be
          Refs,           \* what upstream may commit, see Adapted
          Hunks,          \* [old, new] of every hunk of integration.patch
          MaxPushes, MaxFailures  \* bounds

Attempts == 4

ASSUME NapToolsAssumption ==
  /\ None # Blocked
  /\ MaxPushes \in Nat /\ MaxFailures \in Nat
  /\ Hunks \in Seq([old : Nat \ {0}, new : Nat])
  /\ \A ref \in Refs, n \in DOMAIN Hunks :
       ref.places[n] \subseteq Nat /\ IsFiniteSet(ref.places[n])

VARIABLES upstream,       \* the commits of the branch, as a sequence over Refs
          output,         \* srcdir/nap-tools-latest
          stage, previous, \* staged-tools and previous-output of the temporary directory
          record,         \* logs/nap-tools-upstream.json
          package,        \* the last package built
          pc, attempt,
          commit,         \* what ls-remote answered
          build,          \* [prepared, abi]: how this build was started
          before, asked,  \* history: the output and the head when the refresh began
          failures

vars == <<upstream, output, stage, previous, record, package, pc, attempt, commit, build,
          before, asked, failures>>

Newest == Len(upstream)

-----------------------------------------------------------------------------
(* The adaptation.  A ref is [regular, complete, conflict, error, import,  *)
(* places]: whether its tools are a tree of regular files with all the     *)
(* required ones, whether one has the name of a local file, which error and*)
(* import code napctl has, and the lines at which the context of each hunk *)
(* is found.                                                               *)

Growth(n) ==
  LET sum[i \in 0..n] == IF i = 0 THEN 0 ELSE sum[i - 1] + Hunks[i].new - Hunks[i].old
  IN  sum[n]

Place(ref, n) == CHOOSE line \in ref.places[n] : TRUE

\* Mutated: contexts that upstream reordered are rebased all the same.
RebaseUnordered(ref) ==
  IF \E n \in DOMAIN Hunks : Cardinality(ref.places[n]) # 1
    THEN None
    ELSE [n \in DOMAIN Hunks |->
            [from |-> Place(ref, n), to |-> Place(ref, n) + Growth(n - 1)]]

\* normalize_napctl_hunk_offsets: every hunk goes to the one place where its
\* context is, in the order of the patch; None when that cannot be.
Rebase(ref) ==
  IF \/ \E n \in DOMAIN Hunks : Cardinality(ref.places[n]) # 1
     \/ \E n \in DOMAIN Hunks \ {1} :
          Place(ref, n) < Place(ref, n - 1) + Hunks[n - 1].old
    THEN None
    ELSE [n \in DOMAIN Hunks |->
            [from |-> Place(ref, n), to |-> Place(ref, n) + Growth(n - 1)]]

\* The line numbers the patch came with.
Reviewed == <<>>

\* reviewed_integration_patch: the patch as it is for the napctl it was written
\* for, rebased for 0.6.5, and None for any other or for a mixture.
Adapted(ref) ==
  CASE ref.error = "legacy" /\ ref.import = "legacy" -> Reviewed
    [] ref.error = "0.6.5" /\ ref.import = "0.6.5"   -> Rebase(ref)
    [] OTHER -> None

\* git apply --check, which finds contexts at other lines but not without them.
Applies(ref) == \A n \in DOMAIN Hunks : ref.places[n] # {}

-----------------------------------------------------------------------------
Ended == {"idle", "killed"}

Init ==
  /\ \E ref \in Refs : upstream = <<ref>>
  /\ output \in {None, Blocked}
  /\ stage = None /\ previous = None /\ record = None /\ package = None
  /\ pc = "idle" /\ attempt = 1 /\ commit = None
  /\ build = [prepared |-> FALSE, abi |-> TRUE]
  /\ before = output /\ asked = 0 /\ failures = 0

Push(ref) ==
  /\ Newest <= MaxPushes
  /\ upstream' = Append(upstream, ref)
  /\ UNCHANGED <<output, stage, previous, record, package, pc, attempt, commit, build, before,
                 asked, failures>>

\* Somebody changes a file of the snapshot between prepare() and package().
Edit ==
  /\ pc \in Ended \cup {"verify"} /\ output \notin {None, Blocked}
  /\ output' = [output EXCEPT !.files = @ \cup {"edited"}]
  /\ UNCHANGED <<upstream, stage, previous, record, package, pc, attempt, commit, build, before,
                 asked, failures>>

\* makepkg: in a fresh checkout or in the directory of the last build, with a
\* kernel that has the interface for weights or not.
Start(fresh, abi) ==
  /\ pc \in Ended
  /\ pc' = "begin" /\ attempt' = 1
  /\ build' = [prepared |-> TRUE, abi |-> abi]
  /\ output' = IF fresh THEN None ELSE output
  /\ record' = IF fresh THEN None ELSE record
  /\ before' = output' /\ asked' = Newest
  /\ stage' = None /\ previous' = None
  /\ UNCHANGED <<upstream, package, commit, failures>>

\* makepkg --repackage: package() without prepare().
Repackage ==
  /\ pc \in Ended
  /\ pc' = "verify" /\ build' = [build EXCEPT !.prepared = FALSE]
  /\ UNCHANGED <<upstream, output, stage, previous, record, package, attempt, commit, before,
                 asked, failures>>

-----------------------------------------------------------------------------
(* refresh().                                                              *)

Goes(from, to) ==
  /\ pc = from /\ pc' = to
  /\ UNCHANGED <<upstream, package, build, before, asked, failures>>

\* An exception: __exit__ of the temporary directory removes stage and previous.
Raise(from) ==
  /\ Goes(from, "idle")
  /\ stage' = None /\ previous' = None /\ attempt' = 1 /\ commit' = None

Begin ==
  /\ Goes("begin", "query") /\ output # Blocked
  /\ UNCHANGED <<output, stage, previous, record, attempt, commit>>

BeginBlocked ==
  /\ Raise("begin") /\ output = Blocked
  /\ UNCHANGED <<output, record>>

\* git ls-remote.
Query ==
  /\ Goes("query", "fetch")
  /\ commit' = Newest /\ attempt' = 1
  /\ UNCHANGED <<output, stage, previous, record>>

\* git fetch of that commit, the checks of its tree, and the copy.
Fetch ==
  /\ Goes("fetch", "adapt")
  /\ LET ref == upstream[commit]
     IN  /\ ref.regular /\ ref.complete
         /\ stage' = [commit |-> commit, files |-> {}, hunks |-> None, manifest |-> None]
  /\ attempt' = 1
  /\ UNCHANGED <<output, previous, record, commit>>

FetchRefused ==
  /\ Raise("fetch")
  /\ ~(upstream[commit].regular /\ upstream[commit].complete)
  /\ UNCHANGED <<output, record>>

\* Mutated: one attempt too many.
RequestFailsOnceMore ==
  /\ pc \in {"query", "fetch"} /\ attempt <= Attempts
  /\ attempt' = attempt + 1
  /\ UNCHANGED <<upstream, output, stage, previous, record, package, pc, commit, build, before,
                 asked, failures>>

\* Mutated: after the last attempt the count begins anew.
RequestFailsForever ==
  /\ pc \in {"query", "fetch"}
  /\ attempt' = (attempt % Attempts) + 1
  /\ UNCHANGED <<upstream, output, stage, previous, record, package, pc, commit, build, before,
                 asked, failures>>

\* A request fails or times out: run() makes four attempts.
RequestFails ==
  /\ pc \in {"query", "fetch"} /\ attempt < Attempts
  /\ attempt' = attempt + 1
  /\ UNCHANGED <<upstream, output, stage, previous, record, package, pc, commit, build, before,
                 asked, failures>>

\* Mutated: the snapshot of an older build is taken instead.
GiveUpReuse ==
  /\ attempt = Attempts
  /\ \/ Raise("query") \/ Raise("fetch")
     \/ output # None /\ Goes("query", "verify") /\ UNCHANGED <<stage, previous, attempt, commit>>
  /\ UNCHANGED <<output, record>>

GiveUp ==
  /\ attempt = Attempts
  /\ Raise("query") \/ Raise("fetch")
  /\ UNCHANGED <<output, record>>

Patch ==
  /\ Goes("adapt", "local")
  /\ Adapted(upstream[stage.commit]) # None /\ Applies(upstream[stage.commit])
  /\ stage' = [stage EXCEPT !.files = @ \cup {"patched"},
                            !.hunks = Adapted(upstream[stage.commit])]
  /\ UNCHANGED <<output, previous, record, attempt, commit>>

PatchRefused ==
  /\ Raise("adapt")
  /\ Adapted(upstream[stage.commit]) = None \/ ~Applies(upstream[stage.commit])
  /\ UNCHANGED <<output, record>>

AddLocal ==
  /\ Goes("local", "manifest") /\ ~upstream[stage.commit].conflict
  /\ stage' = [stage EXCEPT !.files = @ \cup {"local"}]
  /\ UNCHANGED <<output, previous, record, attempt, commit>>

LocalConflict ==
  /\ Raise("local") /\ upstream[stage.commit].conflict
  /\ UNCHANGED <<output, record>>

WriteManifest ==
  /\ Goes("manifest", "away")
  /\ stage' = [stage EXCEPT !.manifest = [commit |-> commit, installed |-> stage.files]]
  /\ UNCHANGED <<output, previous, record, attempt, commit>>

\* output.rename(previous), if there is one.
MoveAway ==
  /\ Goes("away", "place")
  /\ previous' = output /\ output' = None
  /\ UNCHANGED <<stage, record, attempt, commit>>

\* stage.rename(output), and the end of the temporary directory.
MoveInto ==
  /\ Goes("place", "record")
  /\ output' = stage /\ stage' = None /\ previous' = None
  /\ UNCHANGED <<record, attempt, commit>>

WriteRecord ==
  /\ Goes("record", "verify")
  /\ record' = commit /\ commit' = None
  /\ UNCHANGED <<output, stage, previous, attempt>>

-----------------------------------------------------------------------------
(* install-tools.py --require-resolved.                                    *)

Intact ==
  output \notin {None, Blocked} /\ output.files = output.manifest.installed

Verify ==
  /\ Goes("verify", "install") /\ Intact
  /\ UNCHANGED <<output, stage, previous, record, attempt, commit>>

VerifyRefused ==
  /\ Raise("verify") /\ ~Intact
  /\ UNCHANGED <<output, record>>

\* The copies, the checks of the kernel tree, and the viewer built from both.
Install ==
  /\ pc = "install" /\ build.abi
  /\ pc' = "idle"
  /\ package' = [tools |-> output, prepared |-> build.prepared, record |-> record, asked |-> asked]
  /\ UNCHANGED <<upstream, output, stage, previous, record, attempt, commit, build, before,
                 asked, failures>>

InstallRefused ==
  /\ Raise("install") /\ ~build.abi
  /\ UNCHANGED <<output, record>>

-----------------------------------------------------------------------------
(* Failures.                                                               *)

\* Mutated: the error handler leaves the old output where it was moved.
FailUnrestored ==
  /\ pc \notin Ended /\ failures < MaxFailures
  /\ failures' = failures + 1
  /\ pc' = "idle" /\ stage' = None /\ previous' = None /\ attempt' = 1 /\ commit' = None
  /\ UNCHANGED <<upstream, output, record, package, build, before, asked>>

\* A command or a file operation fails; when it is the second rename, the old
\* output is renamed back.
Fail ==
  /\ pc \notin Ended /\ failures < MaxFailures
  /\ failures' = failures + 1
  /\ output' = IF pc = "place" /\ previous # None THEN previous ELSE output
  /\ pc' = "idle" /\ stage' = None /\ previous' = None /\ attempt' = 1 /\ commit' = None
  /\ UNCHANGED <<upstream, record, package, build, before, asked>>

\* An interrupt is no OSError, a killed process runs no handler, and the rename
\* back may fail too: what was moved away does not come back.
Die ==
  /\ pc \notin Ended /\ failures < MaxFailures
  /\ failures' = failures + 1
  /\ pc' = "killed" /\ stage' = None /\ previous' = None /\ attempt' = 1 /\ commit' = None
  /\ UNCHANGED <<upstream, output, record, package, build, before, asked>>

Refresh ==
  \/ Begin \/ BeginBlocked \/ Query \/ Fetch \/ FetchRefused \/ RequestFails \/ GiveUp
  \/ Patch \/ PatchRefused \/ AddLocal \/ LocalConflict \/ WriteManifest
  \/ MoveAway \/ MoveInto \/ WriteRecord

Package == Verify \/ VerifyRefused \/ Install \/ InstallRefused

Next ==
  \/ \E ref \in Refs : Push(ref)
  \/ Edit
  \/ \E fresh \in BOOLEAN, abi \in BOOLEAN : Start(fresh, abi)
  \/ Repackage
  \/ Refresh \/ Package
  \/ Fail \/ Die

\* A build that was started runs on; nobody has to start one, and no request
\* has to be answered.
Spec == Init /\ [][Next]_vars /\ WF_vars(Refresh \/ Package)

-----------------------------------------------------------------------------
Trees == [commit : 1..(MaxPushes + 1), files : SUBSET {"patched", "local", "edited"},
          hunks : {None, Reviewed} \cup [DOMAIN Hunks -> [from : Nat, to : Int]],
          manifest : {None} \cup [commit : 1..(MaxPushes + 1),
                                   installed : SUBSET {"patched", "local"}]]

TypeOK ==
  /\ Newest \in 1..(MaxPushes + 1)
  /\ output \in Trees \cup {None, Blocked}
  /\ stage \in Trees \cup {None} /\ previous \in Trees \cup {None}
  /\ record \in {None} \cup 1..Newest /\ commit \in {None} \cup 1..Newest
  /\ attempt \in 1..Attempts /\ asked \in 0..Newest
  /\ failures \in 0..MaxFailures

\* The hunks of a snapshot follow one another without overlap, in the napctl they
\* are applied to and in the one they make, each at the only place it fits.
HunksFit(tree) ==
  \/ tree.hunks = Reviewed
  \/ \A n \in DOMAIN Hunks :
       /\ upstream[tree.commit].places[n] = {tree.hunks[n].from}
       /\ \A m \in 1..(n - 1) :
            /\ tree.hunks[m].from + Hunks[m].old <= tree.hunks[n].from
            /\ tree.hunks[m].to + Hunks[m].new <= tree.hunks[n].to

\* What is found under the name of the output is always one whole snapshot of one
\* commit, adapted under one reviewed contract, and described by its manifest,
\* wherever a build failed or was killed.
OutputWhole ==
  output \notin {None, Blocked} =>
    LET ref == upstream[output.commit]
    IN  /\ ref.regular /\ ref.complete /\ ~ref.conflict /\ ref.error = ref.import
        /\ {"patched", "local"} \subseteq output.files
        /\ output.manifest = [commit |-> output.commit, installed |-> {"patched", "local"}]
        /\ HunksFit(output)

\* refresh-tools.py "A failed fetch/adaptation never replaces the last resolved
\* directory": a refresh that does not succeed leaves the output it found, except
\* when it is interrupted or killed between the two renames.
Refreshing == {"begin", "query", "fetch", "adapt", "local", "manifest", "away", "place"}

LastSnapshotKept ==
  [][/\ pc \in Refreshing /\ pc' = "idle" => output' = before
     /\ pc \in Refreshing \ {"place"} /\ pc' = "killed" => output' = before]_vars

\* NAP-TOOLS.md: a build that began with prepare() never packages an older copy
\* instead of what upstream had when it began, its log names the commit it
\* packages, and no build packages a file changed since the snapshot was resolved.
PackagedAsResolved ==
  package # None =>
    /\ package.tools.files = {"patched", "local"}
    /\ package.prepared => /\ package.record = package.tools.commit
                           /\ package.tools.commit >= package.asked

\* Even if no request is ever answered, every build ends.
BuildEnds == pc \notin Ended ~> pc \in Ended
=============================================================================
