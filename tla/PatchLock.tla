------------------------------ MODULE PatchLock ------------------------------
(***************************************************************************)
(* One component of the patch manifest from resolution to application,     *)
(* while its upstream publishes and withdraws files and the maintainer     *)
(* renews the reviewed port: resolve-latest-patches.py (policy "base") or  *)
(* the 7.2 entry point ("stable"), validate-patch-lock.py with the audit   *)
(* it runs, and apply-resolved-patch.py.  What they decide is defined in   *)
(* PatchPolicy; here is when they run, and on what.                        *)
(***************************************************************************)
EXTENDS PatchPolicy

CONSTANTS Files,     \* for each family the files its upstream may hold, with
                     \* the place of their release in the history of it
          Specs,     \* the components the manifest may declare
          Kernels,   \* the kernel of each policy
          Urls,      \* the answers of the URLs of an HTTP component
          Fits,      \* which of the patches may fit a source tree
          Ports      \* the port a review of some bytes produces

ASSUME FilesAssumption ==
  /\ \A family \in DOMAIN Files : \A f, g \in Files[family] : f.path = g.path => f = g
  /\ "http" \in DOMAIN Files
  /\ \A family \in DOMAIN Files : \A f \in Files[family] : f.bytes # None

\* The versions of a project follow one another number by number, a missing one
\* being 0, then by stage, then by the serial of an rc or a revision.
Number(v, i) == IF i \in DOMAIN v.core THEN v.core[i] ELSE 0

Earlier(v, w) ==
  \/ \E i \in 1..8 : /\ Number(v, i) < Number(w, i)
                     /\ \A j \in 1..(i - 1) : Number(v, j) = Number(w, j)
  \/ /\ \A i \in 1..8 : Number(v, i) = Number(w, i)
     /\ \/ StageRank[v.stage] < StageRank[w.stage]
        \/ v.stage = w.stage /\ v.serial < w.serial

\* A family is a finite set of candidates.  Its history is that of the versions;
\* files that name none are of its beginning.
ASSUME HistoryAssumption ==
  \A family \in DOMAIN Files :
    /\ IsFiniteSet(Files[family])
    /\ \A f \in Files[family] :
         /\ f.path \in Nat /\ f.digits \in Seq(Nat) /\ f.kernel \in Seq(Nat) /\ f.release \in Nat
         /\ f.project # None =>
              /\ f.project.core \in Seq(Nat) /\ Len(f.project.core) \in 1..8
              /\ f.project.stage \in DOMAIN StageRank /\ f.project.serial \in Nat
    /\ \A f, g \in Files[family] :
         f.release < g.release <=>
           g.project # None /\ (f.project = None \/ Earlier(f.project, g.project))

\* A kernel is two or three numbers; a path that names no version begins with
\* the directory of its kernel, if it names one.
ASSUME PathsAssumption ==
  \A family \in DOMAIN Files : \A f \in Files[family] :
    /\ Len(f.kernel) \in {0, 2, 3}
    /\ f.project = None => /\ Len(f.kernel) <= Len(f.digits)
                           /\ \A i \in DOMAIN f.kernel : f.digits[i] = f.kernel[i]

Policies == {"base", "stable"}

ASSUME KernelsAssumption ==
  \A p \in Policies : Kernels[p] \in Seq(Nat) /\ Len(Kernels[p]) \in {2, 3}

\* No component has a port and an adapter, and every port is pinned.
ASSUME SpecsAssumption ==
  /\ Specs \subseteq
       [kind : {"github_tree", "http_patch"}, family : DOMAIN Files,
        local : {s.local : s \in Specs}, adaptive : {s.adaptive : s \in Specs},
        scope : {s.scope : s \in Specs}, whenIncompatible : BOOLEAN,
        versioned : BOOLEAN, pinned : {s.pinned : s \in Specs},
        version : {s.version : s \in Specs}, sha : {s.sha : s \in Specs}]
  /\ \A s \in Specs : (s.local = None \/ s.adaptive = None) /\ (s.local # None => s.sha # None)

VARIABLES policy,     \* the resolver the workflow runs
          spec,       \* the component in the manifest, with its overrides
          tree,       \* the files upstream holds
          urls,       \* what the URLs of an HTTP component answer
          port,       \* the file of the local port in the repository
          resolver,   \* "idle", or what the running resolver wrote last
          pending,    \* the record it has in memory, or None
          lock,       \* the record in logs/patch-lock.json, or None if there is
                      \* no such file that can be read
          normalized, \* the lock has schema 5 and names the exact kernel
          disk,       \* the bytes of the target file in the workspace
          accepted,   \* validation and audit passed on this lock
          applied     \* what the applicator did last

upstream == <<tree, urls>>
manifest == <<policy, spec, port>>
workspace == <<resolver, pending, lock, normalized, disk>>

vars == <<manifest, upstream, workspace, accepted, applied>>

Kernel == Kernels[policy]

\* The files the upstream of the component may hold.
Upstreams == IF spec.kind = "github_tree" THEN Files[spec.family] ELSE Files["http"]

Nothing == [method |-> "none", bytes |-> None]

Init ==
  /\ policy \in Policies
  /\ spec \in Specs
  /\ tree = {}
  /\ urls \in Urls
  /\ port = Ports[spec.sha]
  /\ resolver = "idle" /\ pending = None
  /\ lock = None /\ normalized = FALSE /\ disk = None
  /\ accepted = FALSE /\ applied = Nothing

\* Upstream adds a file, or removes one.  (Not between the first and the last
\* write of a resolver, which reads nothing of upstream there; and after an
\* application only the next resolution is of interest.)
Publish ==
  /\ resolver = "idle" /\ applied = Nothing
  /\ spec.kind = "github_tree"
  /\ \E f \in Upstreams : tree' = IF f \in tree THEN tree \ {f} ELSE tree \cup {f}
  /\ UNCHANGED <<manifest, urls, workspace, accepted, applied>>

Serve ==
  /\ resolver = "idle" /\ applied = Nothing
  /\ spec.kind = "http_patch"
  /\ urls' \in Urls
  /\ UNCHANGED <<manifest, tree, workspace, accepted, applied>>

\* A commit to the repository: the port is redone for a file of upstream, and
\* the manifest pins its version and bytes.
Review(f) ==
  /\ resolver = "idle" /\ applied = Nothing
  /\ spec.local # None
  /\ port' = Ports[f.bytes]
  /\ spec' = [spec EXCEPT !.sha = f.bytes, !.version = IF spec.versioned THEN f.project ELSE None]
  /\ UNCHANGED <<policy, upstream, workspace, accepted, applied>>

\* The resolver selects, checks the bytes and writes the target file; the lock,
\* and what it was accepted for, is still the old one.
WriteTarget ==
  LET rec == Resolve(policy, spec, Target(policy, Kernel), tree, urls, port)
  IN  /\ resolver = "idle" /\ rec.ok
      /\ disk' = rec.data
      /\ resolver' = "target" /\ pending' = rec
      /\ applied' = Nothing
      /\ UNCHANGED <<manifest, upstream, lock, normalized, accepted>>

\* After the targets of all components, and the PKGBUILD, it writes the lock.
\* The base resolver is done; the 7.2 entry point has written one of schema 3.
WriteLock ==
  /\ resolver = "target"
  /\ lock' = pending /\ pending' = None
  /\ normalized' = (policy = "base")
  /\ resolver' = IF policy = "base" THEN "idle" ELSE "lock"
  /\ accepted' = FALSE
  /\ UNCHANGED <<manifest, upstream, disk, applied>>

NormalizeSchema5Lock ==
  /\ resolver = "lock"
  /\ lock' = NormalizeLock(lock, Kernel)
  /\ normalized' = TRUE
  /\ resolver' = "idle"
  /\ UNCHANGED <<manifest, upstream, pending, disk, accepted, applied>>

\* It refuses another component, or the PKGBUILD, after this target was written;
\* or it is killed, which may cut short the file it writes.
ResolverStops ==
  /\ resolver # "idle"
  /\ \/ UNCHANGED <<lock, disk>>
     \/ resolver = "target" /\ disk' = Junk /\ UNCHANGED lock
     \/ lock' = None /\ UNCHANGED disk
  /\ accepted' = (accepted /\ lock' # None)
  /\ normalized' = (normalized /\ lock' # None)
  /\ resolver' = "idle" /\ pending' = None
  /\ UNCHANGED <<manifest, upstream, applied>>

Audited == spec.kind = "github_tree" => AuditComponent(spec, lock, Kernel, tree)

\* validate-patch-lock.py, which runs the audit.  It takes schema 5 only, and
\* does not look at the target files.
Validate ==
  /\ resolver = "idle"
  /\ lock # None /\ normalized /\ ~accepted /\ applied = Nothing
  /\ ValidateRecord(spec, lock, Kernel) /\ Audited
  /\ accepted' = TRUE
  /\ UNCHANGED <<manifest, upstream, workspace, applied>>

\* The bytes the applicator puts into the source tree.
Put(method) ==
  CASE method = "local-port-fallback" -> port
    [] method \in {"refused", "already-integrated"} -> None
    [] OTHER -> disk

\* The kernel of the lock, which the applicator reads in any schema.
LockKernel == IF normalized THEN Kernel ELSE Series(Kernel)

Apply(fits, integrated) ==
  /\ resolver = "idle"
  /\ lock # None /\ applied = Nothing
  /\ LET method == ApplyComponent(spec, lock, LockKernel, disk, fits, integrated)
     IN  applied' = [method |-> method, bytes |-> Put(method)]
  /\ UNCHANGED <<manifest, upstream, workspace, accepted>>

Next ==
  \/ Publish
  \/ Serve
  \/ \E f \in Upstreams : Review(f)
  \/ WriteTarget
  \/ WriteLock
  \/ NormalizeSchema5Lock
  \/ ResolverStops
  \/ Validate
  \/ \E fits \in Fits, integrated \in BOOLEAN : Apply(fits, integrated)

Spec == Init /\ [][Next]_vars

-----------------------------------------------------------------------------
\* The variables have their types: in particular neither the lock nor the record
\* about to be locked names bytes that are not a patch, and while the resolver runs
\* the target holds the bytes of the record it is about to lock or has just locked.
\* (Once it has stopped, an old lock may stand beside new bytes.)
TypeOK ==
  /\ policy \in Policies
  /\ spec \in [kind : {"github_tree", "http_patch"}, family : DOMAIN Files,
              local : {s.local : s \in Specs}, adaptive : {s.adaptive : s \in Specs},
              scope : {s.scope : s \in Specs}, whenIncompatible : BOOLEAN,
              versioned : BOOLEAN, pinned : {s.pinned : s \in Specs},
              version : {None} \cup {s.version : s \in Specs} \cup {f.project : f \in Upstreams},
              sha : {s.sha : s \in Specs} \cup {f.bytes : f \in Upstreams}]
  /\ tree \subseteq Upstreams
  /\ urls \in Urls
  /\ resolver \in {"idle", "target", "lock"}
  /\ normalized \in BOOLEAN /\ accepted \in BOOLEAN
  /\ resolver = "target" => pending.ok /\ pending.data # Junk /\ disk = pending.data
  /\ resolver # "target" => pending = None
  /\ resolver = "lock" => disk = lock.data /\ policy = "stable" /\ ~accepted
  /\ lock # None \/ resolver = "lock" => lock.ok /\ lock.data # Junk
  /\ resolver # "idle" => applied = Nothing
  /\ lock = None => ~accepted /\ applied = Nothing

Accepting == ~accepted /\ accepted'

\* The file of upstream a record was resolved from.
Selected(rec) == CHOOSE f \in Upstreams : f.path = SourceOf(rec).path

\* Whatever upstream did since the lock was resolved, and whatever the manifest
\* says now: a lock is accepted only while no newer project release is out,
\* release candidates and rN revisions in their place, and when that release
\* has a variant for the series of the kernel, only with such a variant.
AcceptsNewestNativeFirst ==
  [][Accepting /\ spec.kind = "github_tree" =>
       LET chosen == Selected(lock)
           current == {f \in tree : f.listed}
           native == {f \in current : f.release = chosen.release /\ f.kernel # <<>>
                                      /\ Series(f.kernel) = Series(Kernel)}
       IN  /\ chosen \in current
           /\ \A f \in current : f.release <= chosen.release
           /\ native # {} => chosen \in native /\ lock.origin = "upstream-native"]_vars

\* A local port the applicator puts into the tree, first choice or fallback, was
\* made from exactly the upstream bytes the lock names, although the port, its
\* pins, the target and the lock change in separate steps, and a resolver that
\* stops between two of them leaves files of two resolutions.
AppliedPortIsReviewed ==
  applied.method \in {"local-port", "local-port-fallback"} =>
    applied.bytes = Ports[IF lock.origin = "local-port" THEN lock.upstream.sha ELSE lock.data]

\* The validator and the applicator state the same policy twice: of an accepted
\* lock the applicator refuses no port and no fallback for its scope, version or
\* pin, as long as the manifest is the one it was validated with.
ApplicatorAgrees ==
  [][Accepting /\ (lock.fallback # None \/ lock.origin \in {"local-port", "adaptive-port"})
       => ~PolicyRefuses(spec, lock, Kernel)]_vars

\* The 7.2 resolver selects for the series, the audit for the exact kernel.
\* They choose the same file when those of the newest release name a kernel
\* series and not a patch level: the audit would pass the record that is about to
\* be locked, normalized, as long as upstream stays what it was.
AuditAgreesOnSeries ==
  [][resolver = "idle" /\ resolver' = "target" /\ policy = "stable"
     /\ spec.kind = "github_tree"
     /\ (\A f \in LatestProjectCandidates(UpstreamCandidates(tree)) : Len(f.kernel) # 3)
       => AuditComponent(spec, NormalizeLock(pending', Kernel), Kernel, tree)]_vars

=============================================================================
