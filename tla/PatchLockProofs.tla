--------------------------- MODULE PatchLockProofs ---------------------------
(***************************************************************************)
(* What is applied was reviewed, and the validator accepts nothing the     *)
(* applicator would refuse: for any families of upstream files, components,*)
(* kernels and any history of upstream, manifest and lock.                 *)
(***************************************************************************)
EXTENDS PatchLock, PatchPolicyProofs

\* What the resolver puts into a record that it does not refuse; a port is the
\* file it read.
Fallback(s, fallback) ==
  /\ fallback # None => s.local # None \/ s.adaptive # None
  /\ fallback # None => DOMAIN fallback = {"kind", "port", "kernel", "project", "sha"}

Form(s, rec) ==
  /\ DOMAIN rec = {"ok", "origin", "selection", "top", "upstream", "adapter", "fallback", "data"}
  /\ rec.ok
  /\ Fallback(s, rec.fallback)

Resolved(s, file, rec) ==
  /\ Form(s, rec)
  /\ rec.origin = "local-port" =>
       s.local # None /\ rec.data = file /\ rec.upstream.sha = s.sha
  /\ rec.origin = "adaptive-port" => s.adaptive # None

LEMMA FallbackForm ==
  ASSUME NEW s, NEW kernel, NEW project
  PROVE  Fallback(s, FallbackMetadata(s, kernel, project))
BY DEF Fallback, FallbackMetadata

LEMMA DirectForm ==
  ASSUME NEW s, NEW target, NEW c, NEW all, NEW native, NEW file
  PROVE  Resolved(s, file, Direct(s, target, c, all, native))
BY FallbackForm DEF Direct, Resolved, Form, Record

LEMMA AdaptiveForm ==
  ASSUME NEW s, NEW c, NEW all, NEW file, s.adaptive # None, AdaptivePort(s, c, all).ok
  PROVE  Resolved(s, file, AdaptivePort(s, c, all))
BY DEF AdaptivePort, Resolved, Form, Record, Refused, Fallback

LEMMA LocalForm ==
  ASSUME NEW s, NEW c, NEW all, NEW file, s.local # None, LocalPort(s, c, all, file).ok
  PROVE  Resolved(s, file, LocalPort(s, c, all, file))
BY DEF LocalPort, Resolved, Form, Record, Refused, Fallback, Upstream, Source

LEMMA UrlForm ==
  ASSUME NEW p, NEW s, NEW target, NEW bytes, NEW file, FromUrl(p, s, target, bytes, file).ok
  PROVE  Resolved(s, file, FromUrl(p, s, target, bytes, file))
BY FallbackForm DEF FromUrl, Resolved, Form, Record, Refused, Fallback

LEMMA GithubForm ==
  ASSUME NEW p, NEW s, NEW target, NEW files, NEW file,
         ResolveGithub(p, s, target, files, file).ok
  PROVE  Resolved(s, file, ResolveGithub(p, s, target, files, file))
BY DirectForm, AdaptiveForm, LocalForm DEF ResolveGithub, Refused

LEMMA HttpForm ==
  ASSUME NEW p, NEW s, NEW target, NEW answers, NEW file,
         ResolveHttp(p, s, target, answers, file).ok
  PROVE  Resolved(s, file, ResolveHttp(p, s, target, answers, file))
BY UrlForm DEF ResolveHttp, Refused

LEMMA ResolveForm ==
  ASSUME NEW p, NEW s, NEW target, NEW files, NEW answers, NEW file,
         Resolve(p, s, target, files, answers, file).ok
  PROVE  /\ Resolved(s, file, Resolve(p, s, target, files, answers, file))
         /\ Resolve(p, s, target, files, answers, file).data # Junk
BY GithubForm, HttpForm DEF Resolve, Refused

LEMMA NormalizeForm ==
  ASSUME NEW s, NEW rec, Form(s, rec), NEW kernel
  PROVE  LET normal == NormalizeLock(rec, kernel)
         IN  /\ Form(s, normal)
             /\ normal.data = rec.data /\ normal.origin = rec.origin
             /\ normal.upstream = rec.upstream /\ normal.top = rec.top
             /\ normal.selection = rec.selection
BY DEF NormalizeLock, Form, Fallback

-----------------------------------------------------------------------------
(* The inductive invariant.                                                *)

\* The port of the component in the manifest is pinned, and is the one that was
\* made for the pinned bytes.
Declared ==
  /\ spec.local = None \/ spec.adaptive = None
  /\ spec.local # None => spec.sha # None
  /\ port = Ports[spec.sha]

\* What is locked, or about to be, is a record the resolver made: if it is a port,
\* the one made for the bytes of the source.
Made(rec) ==
  /\ Form(spec, rec)
  /\ rec.origin = "local-port" => spec.local # None /\ rec.data = Ports[rec.upstream.sha]
  /\ rec.origin = "adaptive-port" => spec.adaptive # None

Locked ==
  /\ lock # None \/ resolver = "lock" => Made(lock)
  /\ resolver = "target" => Made(pending)

IInv == TypeOK /\ Declared /\ Locked /\ AppliedPortIsReviewed

LEMMA InitType == Init => TypeOK
<1> SUFFICES ASSUME Init PROVE TypeOK
  OBVIOUS
<1>1. spec \in [kind : {"github_tree", "http_patch"}, family : DOMAIN Files,
                local : {s.local : s \in Specs}, adaptive : {s.adaptive : s \in Specs},
                scope : {s.scope : s \in Specs}, whenIncompatible : BOOLEAN,
                versioned : BOOLEAN, pinned : {s.pinned : s \in Specs},
                version : {s.version : s \in Specs}, sha : {s.sha : s \in Specs}]
  BY SpecsAssumption DEF Init
<1>2. tree \subseteq Upstreams
  BY DEF Init
<1> QED
  BY <1>1, <1>2 DEF Init, TypeOK, Nothing

\* The upstream of the component stays its upstream.
LEMMA SameUpstream ==
  ASSUME TypeOK, [Next]_vars
  PROVE  Upstreams' = Upstreams
<1>1. spec'.kind = spec.kind /\ spec'.family = spec.family
  BY DEF TypeOK, Next, vars, manifest, Publish, Serve, Review, WriteTarget, WriteLock,
         NormalizeSchema5Lock, ResolverStops, Validate, Apply
<1> QED
  BY <1>1 DEF Upstreams

\* What the resolver is about to lock.
LEMMA TargetForm ==
  ASSUME WriteTarget, Declared
  PROVE  /\ Made(pending)' /\ pending'.data # Junk /\ pending'.data = disk'
         /\ resolver' = "target"
<1> DEFINE rec == Resolve(policy, spec, Target(policy, Kernel), tree, urls, port)
<1>1. /\ rec.ok /\ disk' = rec.data /\ pending' = rec /\ resolver' = "target"
      /\ UNCHANGED <<policy, spec, port>>
  BY DEF WriteTarget, manifest
<1>2. Resolved(spec, port, rec) /\ rec.data # Junk
  BY <1>1, ResolveForm
<1> HIDE DEF rec
<1>3. Made(pending)'
  BY <1>1, <1>2 DEF Made, Resolved, Declared
<1> QED
  BY <1>1, <1>2, <1>3

LEMMA StepType == TypeOK /\ Declared /\ Locked /\ [Next]_vars => TypeOK'
<1> SUFFICES ASSUME TypeOK, Declared, Locked, [Next]_vars PROVE TypeOK'
  OBVIOUS
<1>1. Upstreams' = Upstreams
  BY SameUpstream
<1>2. CASE Publish
  BY <1>1, <1>2 DEF TypeOK, Publish, manifest, workspace
<1>3. CASE Serve
  BY <1>1, <1>3 DEF TypeOK, Serve, manifest, workspace
<1>4. CASE Validate
  <2>1. /\ lock # None /\ resolver = "idle" /\ accepted' \in BOOLEAN
        /\ UNCHANGED <<policy, spec, tree, urls, resolver, pending, lock, normalized, disk, applied>>
    BY <1>4 DEF Validate, manifest, upstream, workspace
  <2> QED
    BY <1>1, <2>1 DEF TypeOK
<1>5. ASSUME NEW f \in Upstreams, Review(f) PROVE TypeOK'
  <2>1. UNCHANGED <<policy, upstream, workspace, accepted, applied>>
    BY <1>5 DEF Review
  <2>2. spec' = [spec EXCEPT !.sha = f.bytes,
                             !.version = IF spec.versioned THEN f.project ELSE None]
    BY <1>5 DEF Review
  <2>3. f.project \in {g.project : g \in Upstreams} /\ f.bytes \in {g.bytes : g \in Upstreams}
    BY <1>5
  <2>4. spec' \in [kind : {"github_tree", "http_patch"}, family : DOMAIN Files,
                   local : {s.local : s \in Specs}, adaptive : {s.adaptive : s \in Specs},
                   scope : {s.scope : s \in Specs}, whenIncompatible : BOOLEAN,
                   versioned : BOOLEAN, pinned : {s.pinned : s \in Specs},
                   version : {None} \cup {s.version : s \in Specs}
                                   \cup {g.project : g \in Upstreams},
                   sha : {s.sha : s \in Specs} \cup {g.bytes : g \in Upstreams}]
    BY <2>2, <2>3 DEF TypeOK
  <2> QED
    BY <1>1, <2>1, <2>4 DEF TypeOK, upstream, workspace
<1>6. CASE WriteTarget
  <2>1. /\ UNCHANGED <<policy, spec, tree, urls, lock, normalized, accepted>>
        /\ applied' = Nothing
    BY <1>6 DEF WriteTarget, manifest, upstream
  <2>2. /\ pending'.ok /\ pending'.data # Junk /\ disk' = pending'.data
        /\ resolver' = "target"
    BY <1>6, TargetForm DEF Made, Form
  <2> QED
    BY <1>1, <2>1, <2>2 DEF TypeOK
<1>7. CASE WriteLock
  <2>1. /\ resolver = "target" /\ lock' = pending /\ pending' = None
        /\ normalized' = (policy = "base") /\ accepted' = FALSE
        /\ resolver' = IF policy = "base" THEN "idle" ELSE "lock"
        /\ UNCHANGED <<policy, spec, tree, urls, disk, applied>>
    BY <1>7 DEF WriteLock, manifest, upstream
  <2>2. policy = "base" \/ policy = "stable"
    BY DEF TypeOK, Policies
  <2> QED
    BY <1>1, <2>1, <2>2 DEF TypeOK
<1>8. CASE NormalizeSchema5Lock
  <2>1. /\ resolver = "lock" /\ lock' = NormalizeLock(lock, Kernel)
        /\ normalized' = TRUE /\ resolver' = "idle"
        /\ UNCHANGED <<policy, spec, tree, urls, pending, disk, accepted, applied>>
    BY <1>8 DEF NormalizeSchema5Lock, manifest, upstream
  <2>2. Form(spec, lock) /\ ~accepted /\ lock.data # Junk /\ disk = lock.data
    BY <2>1 DEF TypeOK, Locked, Made
  <2>3. lock'.data = lock.data /\ Form(spec, lock')
    BY <2>1, <2>2, NormalizeForm
  <2>4. lock'.ok /\ lock'.data # Junk /\ ~accepted' /\ applied' = Nothing
    BY <2>1, <2>2, <2>3 DEF TypeOK, Form
  <2> QED
    BY <1>1, <2>1, <2>4 DEF TypeOK
<1>9. CASE ResolverStops
  <2>1. /\ resolver # "idle" /\ resolver' = "idle" /\ pending' = None
        /\ lock' \in {lock, None} /\ accepted' = (accepted /\ lock' # None)
        /\ normalized' = (normalized /\ lock' # None)
        /\ UNCHANGED <<policy, spec, tree, urls, applied>>
    BY <1>9 DEF ResolverStops, manifest, upstream
  <2>2. accepted' \in BOOLEAN /\ normalized' \in BOOLEAN /\ (lock' = None => ~accepted')
    BY <2>1 DEF TypeOK
  <2>3. applied = Nothing
    BY <2>1 DEF TypeOK
  <2> QED
    BY <1>1, <2>1, <2>2, <2>3 DEF TypeOK
<1>10. CASE \E fits \in Fits, integrated \in BOOLEAN : Apply(fits, integrated)
  <2>1. /\ lock # None /\ resolver = "idle"
        /\ UNCHANGED <<manifest, upstream, workspace, accepted>>
    BY <1>10 DEF Apply
  <2> QED
    BY <1>1, <2>1 DEF TypeOK, manifest, upstream, workspace
<1>11. CASE UNCHANGED vars
  BY <1>1, <1>11 DEF TypeOK, vars, manifest, upstream, workspace
<1> QED
  BY <1>2, <1>3, <1>4, <1>5, <1>6, <1>7, <1>8, <1>9, <1>10, <1>11 DEF Next

LEMMA InitInv == Init => IInv
BY InitType, SpecsAssumption DEF Init, IInv, Declared, Locked, AppliedPortIsReviewed, Nothing

LEMMA ReviewInv ==
  ASSUME IInv, TypeOK', NEW f \in Upstreams, Review(f)
  PROVE  IInv'
<1>1. f.bytes # None
  BY FilesAssumption DEF Upstreams, IInv, TypeOK
<1>2. Declared'
  BY <1>1 DEF IInv, TypeOK, Declared, Review
<1>3. /\ lock' = lock /\ pending' = pending /\ resolver' = resolver /\ applied' = Nothing
      /\ spec'.local = spec.local /\ spec'.adaptive = spec.adaptive
  BY DEF Review, workspace, IInv, TypeOK
<1>4. Locked'
  BY <1>3 DEF IInv, Locked, Made, Form, Fallback
<1>5. AppliedPortIsReviewed'
  BY <1>3 DEF AppliedPortIsReviewed, Nothing
<1> QED
  BY <1>2, <1>4, <1>5 DEF IInv

\* The steps of the resolver: nothing is applied, and what is locked was pending.
LEMMA ResolverInv ==
  ASSUME IInv, TypeOK', WriteTarget \/ WriteLock \/ NormalizeSchema5Lock \/ ResolverStops
  PROVE  IInv'
<1>1. UNCHANGED <<policy, spec, port>>
  BY DEF WriteTarget, WriteLock, NormalizeSchema5Lock, ResolverStops, manifest
<1>2. Declared'
  BY <1>1 DEF IInv, Declared
<1>3. applied' = Nothing
  BY DEF WriteTarget, WriteLock, NormalizeSchema5Lock, ResolverStops, IInv, TypeOK
<1>4. AppliedPortIsReviewed'
  BY <1>3 DEF AppliedPortIsReviewed, Nothing
<1>5. Locked'
  <2>1. \A rec : Made(rec) => Made(rec)'
    BY <1>1 DEF Made
  <2>2. CASE WriteTarget
    <3>1. lock' = lock /\ resolver = "idle"
      BY <2>2 DEF WriteTarget
    <3> QED
      BY <2>2, <3>1, TargetForm, <1>1 DEF Locked, IInv, Made
  <2>3. CASE WriteLock
    BY <2>3, <1>1 DEF WriteLock, Locked, IInv, Made
  <2>4. CASE NormalizeSchema5Lock
    <3>1. resolver = "lock" /\ resolver' = "idle" /\ lock' = NormalizeLock(lock, Kernel)
      BY <2>4 DEF NormalizeSchema5Lock, IInv, TypeOK
    <3>2. /\ Form(spec, lock') /\ lock'.data = lock.data
          /\ lock'.origin = lock.origin /\ lock'.upstream = lock.upstream
      BY <3>1, NormalizeForm DEF IInv, Locked, Made
    <3> QED
      BY <1>1, <3>1, <3>2 DEF IInv, Locked, Made
  <2>5. CASE ResolverStops
    BY <2>5, <1>1 DEF ResolverStops, Locked, IInv, Made
  <2> QED
    BY <2>2, <2>3, <2>4, <2>5
<1> QED
  BY <1>2, <1>4, <1>5 DEF IInv

\* The target the applicator has read has the digest of the lock.
LEMMA ApplyInv ==
  ASSUME IInv, TypeOK', NEW fits, NEW integrated, Apply(fits, integrated)
  PROVE  IInv'
<1> DEFINE method == ApplyComponent(spec, lock, LockKernel, disk, fits, integrated)
<1>1. UNCHANGED <<spec, port, lock, pending, resolver, disk>> /\ lock # None
  BY DEF Apply, manifest, workspace
<1>2. Declared' /\ Locked'
  BY <1>1 DEF IInv, Declared, Locked, Made
<1>3. applied'.method = method /\ applied'.bytes = Put(method)
  BY DEF Apply
<1>4. ASSUME method = "local-port" PROVE AppliedPortIsReviewed'
  <2>1. lock.origin = "local-port" /\ disk = lock.data
    BY <1>4 DEF ApplyComponent, ApplyFallback
  <2>2. Put(method) = disk
    BY <1>4 DEF Put
  <2> QED
    BY <1>1, <1>2, <1>3, <2>1, <2>2 DEF AppliedPortIsReviewed, IInv, Locked, Made
<1>5. ASSUME method = "local-port-fallback" PROVE AppliedPortIsReviewed'
  <2>1. /\ lock.origin # "local-port" /\ lock.origin # "adaptive-port"
        /\ ~PolicyRefuses(spec, lock, LockKernel)
        /\ lock.fallback.kind = "local-port"
    BY <1>5 DEF ApplyComponent, ApplyFallback
  <2>2. RequireFallback(spec, lock, LockKernel)
    BY <2>1 DEF PolicyRefuses
  <2>3. lock.data = spec.sha
    BY <2>1, <2>2 DEF RequireFallback, RequireLineage
  <2>4. Put(method) = port
    BY <1>5 DEF Put
  <2> QED
    BY <1>1, <1>2, <1>3, <2>1, <2>3, <2>4 DEF AppliedPortIsReviewed, IInv, Declared
<1>6. ASSUME method \notin {"local-port", "local-port-fallback"} PROVE AppliedPortIsReviewed'
  BY <1>3, <1>6 DEF AppliedPortIsReviewed
<1>7. AppliedPortIsReviewed'
  BY <1>4, <1>5, <1>6
<1> QED
  BY <1>2, <1>7 DEF IInv

LEMMA StepInv == IInv /\ [Next]_vars => IInv'
<1> SUFFICES ASSUME IInv, [Next]_vars PROVE IInv'
  OBVIOUS
<1>0. TypeOK'
  BY StepType DEF IInv
<1>1. CASE Publish \/ Serve \/ Validate \/ UNCHANGED vars
  <2>1. UNCHANGED <<manifest, workspace, applied>>
    BY <1>1 DEF Publish, Serve, Validate, vars
  <2> QED
    BY <1>0, <2>1 DEF IInv, Declared, Locked, Made, AppliedPortIsReviewed, manifest, workspace
<1>2. CASE \E f \in Upstreams : Review(f)
  BY <1>0, <1>2, ReviewInv
<1>3. CASE WriteTarget \/ WriteLock \/ NormalizeSchema5Lock \/ ResolverStops
  BY <1>0, <1>3, ResolverInv
<1>4. CASE \E fits \in Fits, integrated \in BOOLEAN : Apply(fits, integrated)
  BY <1>0, <1>4, ApplyInv
<1> QED
  BY <1>1, <1>2, <1>3, <1>4 DEF Next

LEMMA Invariant == Spec => []IInv
<1> QED
  BY InitInv, StepInv, PTL DEF Spec

(* The variables have their types: what is locked, and what is about to    *)
(* be, names bytes that are a patch, and the target holds these bytes      *)
(* until the resolver has ended or stopped.                                *)
THEOREM TypeCorrect == Spec => []TypeOK
<1>1. IInv => TypeOK
  BY DEF IInv
<1> QED
  BY <1>1, Invariant, PTL

(* A port the applicator puts into the tree was made from the upstream     *)
(* bytes the lock names, in whatever order port, pins and lock change.     *)
THEOREM PortsReviewed == Spec => []AppliedPortIsReviewed
<1>1. IInv => AppliedPortIsReviewed
  BY DEF IInv
<1> QED
  BY <1>1, Invariant, PTL

\* What the validator accepts of a record, the applicator accepts of it.
LEMMA AcceptedApplies ==
  ASSUME IInv, lock # None, ValidateRecord(spec, lock, Kernel),
         lock.fallback # None \/ lock.origin \in {"local-port", "adaptive-port"}
  PROVE  ~PolicyRefuses(spec, lock, Kernel)
<1>1. CASE lock.origin = "local-port"
  <2>1. spec.local # None /\ spec.sha # None
    BY <1>1 DEF IInv, Locked, Made, Declared
  <2>2. PortKernel(spec, Kernel) /\ PortLineage(spec, lock.upstream, lock.upstream.sha)
    BY <1>1, <2>1 DEF ValidateRecord
  <2> QED
    BY <1>1, <2>1, <2>2 DEF PolicyRefuses, RequireLineage, PortLineage
<1>2. CASE lock.origin = "adaptive-port"
  <2>1. PortKernel(spec, Kernel) /\ lock.adapter = spec.adaptive
    BY <1>2 DEF ValidateRecord, IInv, Locked, Made
  <2> QED
    BY <1>2, <2>1 DEF PolicyRefuses
<1>3. CASE lock.fallback # None /\ lock.origin \notin {"local-port", "adaptive-port"}
  <2>1. spec.local # None \/ spec.adaptive # None
    BY <1>3 DEF IInv, Locked, Made, Form, Fallback
  <2>2. ValidFallback(spec, lock, Kernel)
    BY <1>3, <2>1 DEF ValidateRecord
  <2>3. RequireFallback(spec, lock, Kernel)
    <3>1. CASE spec.local # None
      BY <3>1, <2>2 DEF ValidFallback, RequireFallback, RequireLineage, PortLineage, IInv, Declared
    <3>2. CASE spec.local = None
      BY <3>2, <2>1, <2>2 DEF ValidFallback, RequireFallback
    <3> QED
      BY <3>1, <3>2
  <2> QED
    BY <1>3, <2>3 DEF PolicyRefuses
<1> QED
  BY <1>1, <1>2, <1>3

(* A lock is only accepted when the applicator finds nothing to refuse in  *)
(* the scope, version or pin of its port, adapter or fallback.             *)
THEOREM ValidatorStrictEnough == Spec => ApplicatorAgrees
<1>1. IInv /\ [Next]_vars =>
        [Accepting /\ (lock.fallback # None \/ lock.origin \in {"local-port", "adaptive-port"})
           => ~PolicyRefuses(spec, lock, Kernel)]_vars
  <2> SUFFICES ASSUME IInv, [Next]_vars, Accepting,
                      lock.fallback # None \/ lock.origin \in {"local-port", "adaptive-port"}
               PROVE  ~PolicyRefuses(spec, lock, Kernel)
    OBVIOUS
  <2>1. Validate
    BY DEF Accepting, Next, vars, Publish, Serve, Review, WriteTarget, WriteLock,
           NormalizeSchema5Lock, ResolverStops, Apply
  <2> QED
    BY <2>1, AcceptedApplies DEF Validate
<1> QED
  BY <1>1, Invariant, PTL DEF Spec, ApplicatorAgrees

-----------------------------------------------------------------------------
(* The key of a version has its order: numbers, stage, serial.             *)

LEMMA FamilyCandidates ==
  ASSUME NEW family \in DOMAIN Files, NEW f \in Files[family]
  PROVE  /\ IsCandidate(f)
         /\ f.release \in Nat
         /\ f.project # None =>
              /\ f.project.core \in Seq(Nat) /\ Len(f.project.core) \in 1..8
              /\ f.project.stage \in Stages /\ f.project.serial \in Nat
<1>1. /\ f.path \in Nat /\ f.digits \in Seq(Nat) /\ f.kernel \in Seq(Nat) /\ f.release \in Nat
      /\ f.project # None =>
           /\ f.project.core \in Seq(Nat) /\ Len(f.project.core) \in 1..8
           /\ f.project.stage \in DOMAIN StageRank /\ f.project.serial \in Nat
  BY HistoryAssumption
<1>2. \A s \in Seq(Nat) : s \in Seq(Int)
  OBVIOUS
<1>3. DOMAIN StageRank = Stages
  BY DEF StageRank, Stages
<1> QED BY <1>1, <1>2, <1>3 DEF IsCandidate, IsVersion, Numbers

LEMMA KeyNumbers ==
  ASSUME NEW v, v # None, v.core \in Seq(Nat), Len(v.core) \in 1..8, v.stage \in Stages,
         v.serial \in Nat
  PROVE  /\ \A i \in 1..8 : ProjectVersionKey(v)[i] = Number(v, i) /\ Number(v, i) \in Nat
         /\ ProjectVersionKey(v)[9] = StageRank[v.stage] /\ StageRank[v.stage] \in Nat
         /\ ProjectVersionKey(v)[10] = v.serial
<1> DEFINE front == Pad(v.core, 8)
           end == <<StageRank[v.stage], v.serial>>
<1>1. v.core \in Numbers /\ DOMAIN v.core = 1..Len(v.core) /\ v.core # <<>>
      /\ \A i \in 1..Len(v.core) : v.core[i] \in Nat
  <2>1. Len(<<>>) \notin 1..8
    OBVIOUS
  <2>2. v.core # <<>>
    BY <2>1, Zenon
  <2> QED BY <2>2 DEF Numbers
<1>2. /\ front \in Seq(Int) /\ Len(front) = 8
      /\ \A i \in 1..8 : front[i] = Number(v, i) /\ Number(v, i) \in Nat
  <2>1. /\ front \in Numbers /\ Len(front) = 8
        /\ \A i \in 1..8 : front[i] = IF i \in 1..Len(v.core) THEN v.core[i] ELSE 0
    BY <1>1, PadType
  <2> HIDE DEF front
  <2>2. \A i \in 1..8 : front[i] = Number(v, i) /\ Number(v, i) \in Nat
    BY <1>1, <2>1 DEF Number
  <2> QED BY <2>1, <2>2 DEF Numbers
<1>3. /\ end \in Seq(Int) /\ Len(end) = 2 /\ end[1] = StageRank[v.stage] /\ end[2] = v.serial
      /\ StageRank[v.stage] \in Nat
  BY DEF Stages, StageRank
<1>4. ProjectVersionKey(v) = front \o end
  BY <1>1 DEF ProjectVersionKey
<1> HIDE DEF front, end
<1>5. \A i \in 1..(Len(front) + Len(end)) :
        (front \o end)[i] = IF i <= Len(front) THEN front[i] ELSE end[i - Len(front)]
  BY <1>2, <1>3, ConcatProperties, Zenon
<1> DEFINE whole == front \o end
<1>6. \A i \in 1..(Len(front) + Len(end)) :
        whole[i] = IF i <= Len(front) THEN front[i] ELSE end[i - Len(front)]
  BY <1>5
<1> HIDE DEF whole
<1>7. \A i \in 1..8 : whole[i] = front[i]
  <2>1. \A i \in 1..8 : i \in 1..(8 + 2) /\ i <= 8
    OBVIOUS
  <2> QED BY <1>2, <1>3, <1>6, <2>1, Zenon
<1>8. whole[9] = end[1] /\ whole[10] = end[2]
  <2>1. /\ 9 \in 1..(8 + 2) /\ 10 \in 1..(8 + 2) /\ ~(9 <= 8) /\ ~(10 <= 8)
        /\ 9 - 8 = 1 /\ 10 - 8 = 2
    OBVIOUS
  <2>2. \A i \in 1..(8 + 2) : whole[i] = IF i <= 8 THEN front[i] ELSE end[i - 8]
    BY <1>2, <1>3, <1>6, Zenon
  <2>3. whole[9] = end[9 - 8] /\ whole[10] = end[10 - 8]
    BY <2>1, <2>2, Zenon
  <2> QED BY <2>1, <2>3, Zenon
<1>9. ProjectVersionKey(v) = whole
  BY <1>4 DEF whole
<1> QED BY <1>2, <1>3, <1>7, <1>8, <1>9, Zenon

LEMMA KeyOrder ==
  ASSUME NEW v, v # None, v.core \in Seq(Nat), Len(v.core) \in 1..8, v.stage \in Stages,
         v.serial \in Nat,
         NEW w, w # None, w.core \in Seq(Nat), Len(w.core) \in 1..8, w.stage \in Stages,
         w.serial \in Nat
  PROVE  Less(ProjectVersionKey(v), ProjectVersionKey(w)) <=> Earlier(v, w)
<1> DEFINE a == ProjectVersionKey(v)
           b == ProjectVersionKey(w)
<1>1. Len(a) = 10 /\ Len(b) = 10 /\ DOMAIN b = 1..10
  <2>1. IsVersion(v) /\ IsVersion(w)
    BY DEF IsVersion, Numbers
  <2> QED BY <2>1, ProjectKeyType DEF Numbers
<1>2. /\ \A i \in 1..8 : a[i] = Number(v, i) /\ a[i] \in Nat
      /\ \A i \in 1..8 : b[i] = Number(w, i) /\ b[i] \in Nat
      /\ a[9] = StageRank[v.stage] /\ b[9] = StageRank[w.stage] /\ a[9] \in Nat /\ b[9] \in Nat
      /\ a[10] = v.serial /\ b[10] = w.serial
  BY KeyNumbers
<1>3. StageRank[v.stage] = StageRank[w.stage] <=> v.stage = w.stage
  BY DEF Stages, StageRank
<1> HIDE DEF a, b
<1>4. Less(a, b) <=> \E i \in 1..10 : a[i] < b[i] /\ \A j \in 1..(i - 1) : a[j] = b[j]
  BY <1>1 DEF Less
<1>5. ASSUME NEW i \in 1..10, a[i] < b[i], \A j \in 1..(i - 1) : a[j] = b[j]
      PROVE  Earlier(v, w)
  <2>1. CASE i \in 1..8
    <3>1. Number(v, i) < Number(w, i) /\ \A j \in 1..(i - 1) : Number(v, j) = Number(w, j)
      <4>1. \A j \in 1..(i - 1) : j \in 1..8
        BY <2>1
      <4>2. Number(v, i) < Number(w, i)
        BY <1>2, <1>5, <2>1
      <4>3. \A j \in 1..(i - 1) : Number(v, j) = Number(w, j)
        BY <1>2, <1>5, <4>1, Zenon
      <4> QED BY <4>2, <4>3
    <3> QED BY <2>1, <3>1 DEF Earlier
  <2>2. CASE i = 9
    <3>1. \A j \in 1..8 : j \in 1..(9 - 1)
      OBVIOUS
    <3>2. (\A j \in 1..8 : Number(v, j) = Number(w, j)) /\ StageRank[v.stage] < StageRank[w.stage]
      BY <1>2, <1>5, <2>2, <3>1
    <3> QED BY <3>2 DEF Earlier
  <2>3. CASE i = 10
    <3>1. (\A j \in 1..8 : j \in 1..(10 - 1)) /\ 9 \in 1..(10 - 1)
      OBVIOUS
    <3>2. /\ \A j \in 1..8 : Number(v, j) = Number(w, j)
          /\ v.stage = w.stage /\ v.serial < w.serial
      BY <1>2, <1>3, <1>5, <2>3, <3>1
    <3> QED BY <3>2 DEF Earlier
  <2> QED BY <2>1, <2>2, <2>3
<1>6. ASSUME Earlier(v, w)
      PROVE  \E i \in 1..10 : a[i] < b[i] /\ \A j \in 1..(i - 1) : a[j] = b[j]
  <2>1. CASE \E i \in 1..8 : /\ Number(v, i) < Number(w, i)
                             /\ \A j \in 1..(i - 1) : Number(v, j) = Number(w, j)
    <3>1. PICK i \in 1..8 : /\ Number(v, i) < Number(w, i)
                            /\ \A j \in 1..(i - 1) : Number(v, j) = Number(w, j)
      BY <2>1
    <3>2. i \in 1..10 /\ \A j \in 1..(i - 1) : j \in 1..8
      OBVIOUS
    <3> QED BY <1>2, <3>1, <3>2
  <2>2. CASE (\A i \in 1..8 : Number(v, i) = Number(w, i))
             /\ StageRank[v.stage] < StageRank[w.stage]
    <3>1. 9 \in 1..10 /\ \A j \in 1..(9 - 1) : j \in 1..8
      OBVIOUS
    <3>2. a[9] < b[9] /\ \A j \in 1..(9 - 1) : a[j] = b[j]
      BY <1>2, <2>2, <3>1
    <3> QED BY <3>1, <3>2
  <2>3. CASE (\A i \in 1..8 : Number(v, i) = Number(w, i))
             /\ v.stage = w.stage /\ v.serial < w.serial
    <3>1. 10 \in 1..10 /\ \A j \in 1..(10 - 1) : j \in 1..8 \/ j = 9
      OBVIOUS
    <3>2. a[10] < b[10] /\ \A j \in 1..(10 - 1) : a[j] = b[j]
      BY <1>2, <2>3, <3>1
    <3> QED BY <3>1, <3>2
  <2> QED BY <1>6, <2>1, <2>2, <2>3 DEF Earlier
<1>7. Less(a, b) <=> Earlier(v, w)
  BY <1>4, <1>5, <1>6
<1> QED BY <1>7 DEF a, b

-----------------------------------------------------------------------------
(* A lock is accepted only of the newest release upstream holds.           *)

\* The candidates of the audit.
LEMMA TreeCandidates ==
  ASSUME TypeOK, spec.kind = "github_tree"
  PROVE  LET current == UpstreamCandidates(tree)
         IN  /\ spec.family \in DOMAIN Files
             /\ current \subseteq Files[spec.family] /\ IsFiniteSet(current)
             /\ \A f \in current : IsCandidate(f)
             /\ current = {f \in tree : f.listed}
<1>1. spec.family \in DOMAIN Files /\ tree \subseteq Files[spec.family]
  BY DEF TypeOK, Upstreams
<1>2. IsFiniteSet(Files[spec.family])
  BY <1>1, HistoryAssumption
<1>3. UpstreamCandidates(tree) \subseteq Files[spec.family]
  BY <1>1 DEF UpstreamCandidates
<1>4. IsFiniteSet(UpstreamCandidates(tree))
  BY <1>2, <1>3, FS_Subset
<1>5. \A f \in UpstreamCandidates(tree) : IsCandidate(f)
  BY <1>1, <1>3, FamilyCandidates
<1> QED BY <1>1, <1>3, <1>4, <1>5 DEF UpstreamCandidates

LEMMA KernelNumbers ==
  ASSUME TypeOK
  PROVE  Kernel \in Numbers /\ Kernel # <<>>
<1>1. Kernel \in Seq(Nat) /\ Len(Kernel) \in {2, 3}
  BY KernelsAssumption DEF Kernel, TypeOK
<1>2. Kernel \in Seq(Int) /\ Len(<<>>) \notin {2, 3}
  <2>1. \A s \in Seq(Nat) : s \in Seq(Int)
    OBVIOUS
  <2> QED BY <1>1, <2>1
<1> QED BY <1>1, <1>2, Zenon DEF Numbers

\* What the audit lets through is a variant of the newest release, and a native
\* one when there is one.
LEMMA AuditFollows ==
  ASSUME TypeOK, spec.kind = "github_tree", NEW rec, AuditComponent(spec, rec, Kernel, tree)
  PROVE  LET newest == LatestProjectCandidates(UpstreamCandidates(tree))
             native == NativeSeries(newest, Kernel)
         IN  \E c \in newest : /\ SourceOf(rec).path = c.path
                               /\ native # {} => c \in native /\ rec.origin = "upstream-native"
<1> DEFINE current == UpstreamCandidates(tree)
           newest == LatestProjectCandidates(current)
           native == NativeSeries(newest, Kernel)
<1>1. IsFiniteSet(current) /\ \A f \in current : IsCandidate(f)
  BY TreeCandidates
<1>2. newest \subseteq current /\ newest # {}
  <2>1. newest # {}
    BY DEF AuditComponent
  <2>2. newest \subseteq current
    BY DEF LatestProjectCandidates
  <2> QED BY <2>1, <2>2
<1>3. native \subseteq newest
  BY DEF NativeSeries
<1>4. \/ native # {} /\ Follows(rec, "latest-native-series", "upstream-native",
                                MostCompatible(native, Kernel))
      \/ native = {} /\ (\E c \in newest : c.kernel # <<>>)
           /\ Follows(rec, PortSelection(spec)[1], PortSelection(spec)[2],
                      Nearest(newest, Kernel, OrdinalDistance))
      \/ native = {} /\ Follows(rec, "latest-kernel-agnostic", "upstream-kernel-agnostic",
                                Latest(newest))
  BY DEF AuditComponent
<1> HIDE DEF current, newest, native
<1>5. /\ IsFiniteSet(newest) /\ IsFiniteSet(native)
      /\ \A f \in newest : IsCandidate(f)
      /\ \A f \in native : IsCandidate(f)
  BY <1>1, <1>2, <1>3, FS_Subset
<1>6. native # {} => MostCompatible(native, Kernel) \in native
  BY <1>5, MostCompatibleGreatest
<1>7. (\E c \in newest : c.kernel # <<>>) => Nearest(newest, Kernel, OrdinalDistance) \in newest
  BY <1>5, KernelNumbers, NearestMember
<1>8. Latest(newest) \in newest
  BY <1>2, <1>5, LatestGreatest
<1>9. \E c \in newest : /\ SourceOf(rec).path = c.path
                        /\ native # {} => c \in native /\ rec.origin = "upstream-native"
  BY <1>3, <1>4, <1>6, <1>7, <1>8 DEF Follows
<1> QED BY <1>9 DEF current, newest, native

\* No candidate is of a release after the newest, and those of its release are
\* all variants of it.
LEMMA NewestIsLast ==
  ASSUME NEW family \in DOMAIN Files, NEW S \in SUBSET Files[family],
         NEW c \in LatestProjectCandidates(S), NEW f \in S
  PROVE  /\ f.release <= c.release
         /\ f.release = c.release => f \in LatestProjectCandidates(S)
<1> DEFINE V == {d \in S : d.project # None}
           Key(d) == ProjectVersionKey(d.project)
<1>1. /\ c \in S /\ (V # {} => c \in V)
      /\ V = {} => LatestProjectCandidates(S) = S
      /\ V # {} => \A d \in S : d \in LatestProjectCandidates(S) <=>
                                  d \in V /\ \A e \in V : ~Less(Key(d), Key(e))
  BY DEF LatestProjectCandidates
<1>2. \A d \in S : d.release \in Nat
  BY HistoryAssumption
<1>3. \A d, e \in S : d.release < e.release <=>
        e.project # None /\ (d.project = None \/ Earlier(d.project, e.project))
  BY HistoryAssumption
<1>4. \A d, e \in V : Less(Key(d), Key(e)) <=> Earlier(d.project, e.project)
  <2> SUFFICES ASSUME NEW d \in V, NEW e \in V
               PROVE  Less(Key(d), Key(e)) <=> Earlier(d.project, e.project)
    OBVIOUS
  <2>1. /\ d.project # None /\ d.project.core \in Seq(Nat) /\ Len(d.project.core) \in 1..8
        /\ d.project.stage \in Stages /\ d.project.serial \in Nat
    BY FamilyCandidates
  <2>2. /\ e.project # None /\ e.project.core \in Seq(Nat) /\ Len(e.project.core) \in 1..8
        /\ e.project.stage \in Stages /\ e.project.serial \in Nat
    BY FamilyCandidates
  <2> QED BY <2>1, <2>2, KeyOrder
<1>5. \A d \in V : Key(d) \in Numbers
  <2>1. \A d \in V : d.project # None => IsVersion(d.project)
    BY FamilyCandidates DEF IsCandidate
  <2> QED BY <2>1, ProjectKeyType
<1> HIDE DEF Key
<1>6. CASE V = {}
  <2>1. ~(c.release < f.release) /\ f \in LatestProjectCandidates(S)
    BY <1>1, <1>3, <1>6
  <2> QED BY <1>1, <1>2, <2>1
<1>7. CASE V # {}
  <2>1. c \in V /\ \A e \in V : ~Less(Key(c), Key(e))
    BY <1>1, <1>7
  <2>2. ~(c.release < f.release)
    BY <1>1, <1>3, <1>4, <2>1
  <2>3. ASSUME f.release = c.release PROVE f \in LatestProjectCandidates(S)
    <3>1. ~(f.release < c.release)
      BY <1>1, <1>2, <2>3
    <3>2. f \in V /\ ~Less(Key(f), Key(c))
      BY <1>1, <1>3, <1>4, <2>1, <3>1
    <3>3. Key(f) = Key(c)
      BY <1>5, <2>1, <3>2, LessTotal
    <3> QED BY <1>1, <1>7, <2>1, <3>2, <3>3
  <2> QED BY <1>1, <1>2, <2>2, <2>3
<1> QED BY <1>6, <1>7

\* What the audit says of the release it lets through.
LEMMA AuditedIsNewest ==
  ASSUME TypeOK, spec.kind = "github_tree", AuditComponent(spec, lock, Kernel, tree)
  PROVE  LET chosen == Selected(lock)
             current == {f \in tree : f.listed}
             native == {f \in current : f.release = chosen.release /\ f.kernel # <<>>
                                        /\ Series(f.kernel) = Series(Kernel)}
         IN  /\ chosen \in current
             /\ \A f \in current : f.release <= chosen.release
             /\ native # {} => chosen \in native /\ lock.origin = "upstream-native"
<1> DEFINE chosen == Selected(lock)
           current == UpstreamCandidates(tree)
           newest == LatestProjectCandidates(current)
<1>1. /\ spec.family \in DOMAIN Files /\ current \in SUBSET Files[spec.family]
      /\ current = {f \in tree : f.listed}
  BY TreeCandidates
<1>2. PICK c \in newest :
        /\ SourceOf(lock).path = c.path
        /\ NativeSeries(newest, Kernel) # {} =>
             c \in NativeSeries(newest, Kernel) /\ lock.origin = "upstream-native"
  BY AuditFollows
<1>3. c \in current
  BY DEF LatestProjectCandidates
<1>4. chosen = c
  <2>1. Upstreams = Files[spec.family] /\ c \in Upstreams
    BY <1>1, <1>3 DEF Upstreams
  <2>2. \A f \in Upstreams : f.path = c.path => f = c
    BY <1>1, <2>1, FilesAssumption
  <2> QED BY <1>2, <2>1, <2>2 DEF Selected
<1>5. \A f \in current : /\ f.release <= c.release
                         /\ f.release = c.release => f \in newest
  <2> HIDE DEF current
  <2> QED BY <1>1, NewestIsLast
<1> HIDE DEF current, newest, chosen
<1>6. \A f \in newest : f.kernel # <<>> /\ Series(f.kernel) = Series(Kernel)
                          => f \in NativeSeries(newest, Kernel)
  <2>1. 3 >= 2 /\ 2 >= 2
    OBVIOUS
  <2> QED BY <2>1 DEF NativeSeries, Compatibility
<1>7. c \in NativeSeries(newest, Kernel) => c.kernel # <<>> /\ Series(c.kernel) = Series(Kernel)
  <2>1. Kernel # <<>> /\ ~(0 >= 2)
    BY KernelNumbers
  <2> QED BY <2>1 DEF NativeSeries, Compatibility
<1>8. ASSUME NEW f \in current, f.release = c.release, f.kernel # <<>>,
             Series(f.kernel) = Series(Kernel)
      PROVE  /\ c.kernel # <<>> /\ Series(c.kernel) = Series(Kernel)
             /\ lock.origin = "upstream-native"
  BY <1>2, <1>5, <1>6, <1>7, <1>8
<1>9. /\ chosen \in current
      /\ \A f \in current : f.release <= chosen.release
      /\ \A f \in current : f.release = chosen.release /\ f.kernel # <<>>
                            /\ Series(f.kernel) = Series(Kernel) =>
           /\ chosen.kernel # <<>> /\ Series(chosen.kernel) = Series(Kernel)
           /\ lock.origin = "upstream-native"
  BY <1>3, <1>4, <1>5, <1>8
<1> QED BY <1>1, <1>9 DEF chosen

(* Whatever upstream did since the lock was resolved, a lock is accepted   *)
(* only while no newer release is out, and only with a variant for the     *)
(* series of the kernel when the newest release has one.                   *)
THEOREM AcceptedIsNewest == Spec => AcceptsNewestNativeFirst
<1> DEFINE Good ==
      LET chosen == Selected(lock)
          current == {f \in tree : f.listed}
          native == {f \in current : f.release = chosen.release /\ f.kernel # <<>>
                                     /\ Series(f.kernel) = Series(Kernel)}
      IN  /\ chosen \in current
          /\ \A f \in current : f.release <= chosen.release
          /\ native # {} => chosen \in native /\ lock.origin = "upstream-native"
<1>1. IInv /\ [Next]_vars => [Accepting /\ spec.kind = "github_tree" => Good]_vars
  <2> SUFFICES ASSUME IInv, [Next]_vars, Accepting, spec.kind = "github_tree"
               PROVE  Good
    OBVIOUS
  <2>1. Validate
    BY DEF Accepting, Next, vars, Publish, Serve, Review, WriteTarget, WriteLock,
           NormalizeSchema5Lock, ResolverStops, Apply
  <2>2. AuditComponent(spec, lock, Kernel, tree)
    BY <2>1 DEF Validate, Audited
  <2> QED BY <2>2, AuditedIsNewest DEF IInv
<1> QED BY <1>1, Invariant, PTL DEF Spec, AcceptsNewestNativeFirst

-----------------------------------------------------------------------------
(* The resolver and the audit choose alike.                                *)

\* The numbers of a kernel stay apart in the distance, which gives each three
\* digits: minor numbers below 1000, and the patch level of the kernel below
\* half of that.
NumbersApart ==
  /\ \A p \in Policies : PatchLevel(Kernels[p]) < 500
  /\ \A family \in DOMAIN Files : \A f \in Files[family] :
       f.kernel # <<>> => f.kernel[2] < 1000

LEMMA KernelKernel ==
  ASSUME TypeOK
  PROVE  IsKernel(Kernel)
BY KernelsAssumption DEF Kernel, TypeOK, IsKernel

\* What holds of the variants of the newest release when none names a patch level.
LEMMA NewestVariants ==
  ASSUME TypeOK, spec.kind = "github_tree", NumbersApart,
         \A f \in LatestProjectCandidates(UpstreamCandidates(tree)) : Len(f.kernel) # 3
  PROVE  LET newest == LatestProjectCandidates(UpstreamCandidates(tree))
         IN  /\ IsFiniteSet(newest)
             /\ \A f \in newest : IsCandidate(f)
             /\ DistinctPaths(newest)
             /\ SeriesVariants(newest)
             /\ KeysFollowKernels(newest)
<1> DEFINE current == UpstreamCandidates(tree)
           newest == LatestProjectCandidates(current)
<1>1. /\ spec.family \in DOMAIN Files /\ current \subseteq Files[spec.family]
      /\ IsFiniteSet(current) /\ \A f \in current : IsCandidate(f)
  BY TreeCandidates
<1>2. newest \subseteq current
  BY DEF LatestProjectCandidates
<1>3. IsFiniteSet(newest) /\ \A f \in newest : IsCandidate(f)
  BY <1>1, <1>2, FS_Subset
<1>4. DistinctPaths(newest)
  BY <1>1, <1>2, FilesAssumption DEF DistinctPaths
<1>5. \A f \in newest : /\ f.kernel \in Seq(Nat) /\ f.digits \in Seq(Nat)
                        /\ f.kernel = <<>> \/ (IsKernel(f.kernel) /\ Len(f.kernel) = 2)
                        /\ f.project = None =>
                             /\ Len(f.kernel) <= Len(f.digits)
                             /\ \A i \in DOMAIN f.kernel : f.digits[i] = f.kernel[i]
  <2> SUFFICES ASSUME NEW f \in newest
               PROVE  /\ f.kernel \in Seq(Nat) /\ f.digits \in Seq(Nat)
                      /\ f.kernel = <<>> \/ (IsKernel(f.kernel) /\ Len(f.kernel) = 2)
                      /\ f.project = None =>
                           /\ Len(f.kernel) <= Len(f.digits)
                           /\ \A i \in DOMAIN f.kernel : f.digits[i] = f.kernel[i]
    OBVIOUS
  <2>1. f \in Files[spec.family]
    BY <1>1, <1>2
  <2>2. f.kernel \in Seq(Nat) /\ f.digits \in Seq(Nat)
    BY <1>1, <2>1, HistoryAssumption
  <2>3. /\ Len(f.kernel) \in {0, 2, 3}
        /\ f.project = None => /\ Len(f.kernel) <= Len(f.digits)
                               /\ \A i \in DOMAIN f.kernel : f.digits[i] = f.kernel[i]
    BY <1>1, <2>1, PathsAssumption
  <2>4. Len(f.kernel) \in {0, 2}
    BY <2>3
  <2>5. f.kernel = <<>> \/ Len(f.kernel) = 2
    BY <2>2, <2>4, EmptySeq
  <2> QED BY <2>2, <2>3, <2>5 DEF IsKernel
<1>6. SeriesVariants(newest)
  <2>1. \A f \in newest : f.kernel # <<>> => f.kernel[2] < 1000
    BY <1>1, <1>2 DEF NumbersApart
  <2> HIDE DEF newest
  <2> QED BY <1>5, <2>1 DEF SeriesVariants
<1>7. \A c, d \in newest : /\ c.project = None <=> d.project = None
                           /\ ProjectVersionKey(c.project) = ProjectVersionKey(d.project)
  <2> HIDE DEF current
  <2> QED BY <1>1, NewestReleaseOne
<1> HIDE DEF current, newest
<1>8. ASSUME NEW c \in newest, NEW d \in newest, c.kernel # <<>>, d.kernel # <<>>,
             Less(c.kernel, d.kernel)
      PROVE  KeyLess(LatestKey(c), LatestKey(d))
  <2> DEFINE a == LatestKey(c)  b == LatestKey(d)
  <2>1. /\ a[1] = IF c.project # None THEN ProjectVersionKey(c.project) ELSE c.digits
        /\ b[1] = IF d.project # None THEN ProjectVersionKey(d.project) ELSE d.digits
        /\ a[2] = c.kernel /\ b[2] = d.kernel /\ DOMAIN b = 1..3
    BY <1>8 DEF LatestKey
  <2> HIDE DEF a, b
  <2>2. CASE c.project # None
    <3>1. a[1] = b[1]
      BY <1>7, <2>1, <2>2
    <3>2. 2 \in DOMAIN b /\ \A j \in 1..(2 - 1) : a[j] = b[j]
      BY <2>1, <3>1
    <3> QED BY <1>8, <2>1, <3>2 DEF KeyLess, a, b
  <2>3. CASE c.project = None
    <3>1. /\ a[1] = c.digits /\ b[1] = d.digits /\ d.project = None
      BY <1>7, <2>1, <2>3
    <3>2. /\ Len(c.kernel) = 2 /\ Len(d.kernel) = 2 /\ DOMAIN c.kernel = 1..2 /\ DOMAIN d.kernel = 1..2
          /\ 2 <= Len(c.digits) /\ 2 <= Len(d.digits) /\ DOMAIN d.digits = 1..Len(d.digits)
          /\ Len(c.digits) \in Nat /\ Len(d.digits) \in Nat
          /\ \A i \in 1..2 : c.digits[i] = c.kernel[i] /\ d.digits[i] = d.kernel[i]
      <4>1. ASSUME NEW f \in newest, f.kernel # <<>>, f.project = None
            PROVE  /\ Len(f.kernel) = 2 /\ DOMAIN f.kernel = 1..2 /\ 2 <= Len(f.digits)
                   /\ DOMAIN f.digits = 1..Len(f.digits) /\ Len(f.digits) \in Nat
                   /\ \A i \in 1..2 : f.digits[i] = f.kernel[i]
        <5>1. /\ f.kernel \in Seq(Nat) /\ f.digits \in Seq(Nat) /\ Len(f.kernel) = 2
              /\ Len(f.kernel) <= Len(f.digits)
              /\ \A i \in DOMAIN f.kernel : f.digits[i] = f.kernel[i]
          BY <1>5, <4>1
        <5> QED BY <5>1
      <4> QED BY <1>8, <2>3, <3>1, <4>1
    <3>3. PICK i \in 1..2 : (\A j \in 1..(i - 1) : c.kernel[j] = d.kernel[j]) /\ c.kernel[i] < d.kernel[i]
      BY <1>8, <3>2 DEF Less
    <3>4. /\ i \in DOMAIN d.digits /\ i <= Len(c.digits) + 1
          /\ \A j \in 1..(i - 1) : c.digits[j] = d.digits[j]
          /\ c.digits[i] < d.digits[i]
      <4>1. \A j \in 1..(i - 1) : j \in 1..2
        OBVIOUS
      <4> QED BY <3>2, <3>3, <4>1
    <3>5. Less(a[1], b[1])
      BY <3>1, <3>4 DEF Less
    <3>6. 1 \in DOMAIN b /\ \A j \in 1..(1 - 1) : a[j] = b[j]
      BY <2>1
    <3> QED BY <3>5, <3>6 DEF KeyLess, a, b
  <2> QED BY <2>2, <2>3
<1>9. KeysFollowKernels(newest)
  BY <1>8 DEF KeysFollowKernels
<1> QED BY <1>3, <1>4, <1>6, <1>9 DEF newest, current

\* Hence both choose the same file.
LEMMA SameChoice ==
  ASSUME TypeOK, spec.kind = "github_tree", NumbersApart,
         \A f \in LatestProjectCandidates(UpstreamCandidates(tree)) : Len(f.kernel) # 3
  PROVE  LET newest == LatestProjectCandidates(UpstreamCandidates(tree))
             native == NativeSeries(newest, Kernel)
         IN  /\ NativeSeries(newest, Series(Kernel)) = native
             /\ native # {} => MostCompatible(native, Series(Kernel)) = MostCompatible(native, Kernel)
             /\ (\E c \in newest : c.kernel # <<>>) =>
                  Nearest(newest, Series(Kernel), OrdinalDistance)
                    = Nearest(newest, Kernel, OrdinalDistance)
<1> DEFINE newest == LatestProjectCandidates(UpstreamCandidates(tree))
           native == NativeSeries(newest, Kernel)
<1>1. /\ IsFiniteSet(newest) /\ \A f \in newest : IsCandidate(f)
      /\ DistinctPaths(newest) /\ SeriesVariants(newest) /\ KeysFollowKernels(newest)
  BY NewestVariants
<1>2. IsKernel(Kernel) /\ PatchLevel(Kernel) \in 0..499
  <2>1. PatchLevel(Kernel) < 500 /\ IsKernel(Kernel)
    BY KernelKernel DEF NumbersApart, Kernel, TypeOK
  <2> QED BY <2>1, KernelParts
<1> HIDE DEF newest
<1>3. \A c \in newest : c.kernel = <<>> \/ (IsKernel(c.kernel) /\ Len(c.kernel) = 2)
  BY <1>1 DEF SeriesVariants
<1>4. NativeSeries(newest, Series(Kernel)) = native /\ \A c \in native : c.kernel = Series(Kernel)
  BY <1>2, <1>3, SameNatives
<1>5. /\ native \subseteq newest /\ IsFiniteSet(native) /\ \A c \in native : IsCandidate(c)
      /\ DistinctPaths(native)
  <2>1. native \subseteq newest
    BY DEF NativeSeries
  <2> HIDE DEF native
  <2> QED BY <1>1, <2>1, FS_Subset DEF DistinctPaths
<1> HIDE DEF native
<1>6. native # {} => /\ MostCompatible(native, Series(Kernel)) = Latest(native)
                     /\ MostCompatible(native, Kernel) = Latest(native)
  <2>1. \A c, d \in native : c.kernel = d.kernel
    BY <1>4
  <2> QED BY <1>5, <2>1, MostCompatibleOfOne
<1>7. (\E c \in newest : c.kernel # <<>>) =>
        Nearest(newest, Series(Kernel), OrdinalDistance) = Nearest(newest, Kernel, OrdinalDistance)
  BY <1>1, <1>2, SameNearest
<1> QED BY <1>4, <1>6, <1>7 DEF native, newest

\* What the audit wants of a record for a file of upstream.
Names(rec, selection, origin, c, all) ==
  /\ Follows(rec, selection, origin, c)
  /\ SourceOf(rec).project = c.project
  /\ SourceOf(rec).latest = IF c.project = None THEN None
                            ELSE Latest(LatestProjectCandidates(all)).project

LEMMA DirectNames ==
  ASSUME NEW s, NEW target, NEW c, NEW all, NEW native \in BOOLEAN
  PROVE  LET rec == Direct(s, target, c, all, native)
         IN  /\ native => Names(rec, "latest-native-series", "upstream-native", c, all)
             /\ ~native => Names(rec, "latest-kernel-agnostic", "upstream-kernel-agnostic", c, all)
BY DEF Direct, Record, Upstream, Source, Names, Follows, SourceOf

LEMMA AdaptiveNames ==
  ASSUME NEW s, NEW c, NEW all, AdaptivePort(s, c, all).ok
  PROVE  Names(AdaptivePort(s, c, all), "latest-release-adaptive-port", "adaptive-port", c, all)
BY DEF AdaptivePort, Refused, Record, Upstream, Source, Names, Follows, SourceOf

LEMMA LocalNames ==
  ASSUME NEW s, NEW c, NEW all, NEW file, LocalPort(s, c, all, file).ok
  PROVE  Names(LocalPort(s, c, all, file), "latest-release-port", "local-port", c, all)
BY DEF LocalPort, Refused, Record, Upstream, Source, Names, Follows, SourceOf

LEMMA NormalizeNames ==
  ASSUME NEW s, NEW file, NEW rec, Resolved(s, file, rec), NEW kernel,
         NEW selection, NEW origin, NEW c, NEW all, Names(rec, selection, origin, c, all)
  PROVE  Names(NormalizeLock(rec, kernel), selection, origin, c, all)
BY DEF NormalizeLock, Resolved, Form, Names, Follows, SourceOf

\* The three ways to a record.
LEMMA GithubChoice ==
  ASSUME NEW s, NEW target, NEW files, NEW file,
         ResolveGithub("stable", s, target, files, file).ok
  PROVE  LET all     == UpstreamCandidates(files)
             newest  == LatestProjectCandidates(all)
             native  == NativeSeries(newest, target)
             foreign == Nearest(newest, target, OrdinalDistance)
             rec     == ResolveGithub("stable", s, target, files, file)
         IN  /\ all # {}
             /\ \/ native # {} /\ rec = Direct(s, target, MostCompatible(native, target), all, TRUE)
                \/ /\ native = {} /\ (\A c \in newest : c.kernel = <<>>)
                   /\ rec = Direct(s, target, Latest(newest), all, FALSE)
                \/ /\ native = {} /\ (\E c \in newest : c.kernel # <<>>)
                   /\ s.local # None \/ s.adaptive # None
                   /\ s.adaptive # None => rec = AdaptivePort(s, foreign, all)
                   /\ s.adaptive = None => rec = LocalPort(s, foreign, all, file)
<1> DEFINE all     == UpstreamCandidates(files)
           newest  == LatestProjectCandidates(all)
           native  == NativeSeries(newest, target)
           foreign == Nearest(newest, target, OrdinalDistance)
           rec     == ResolveGithub("stable", s, target, files, file)
<1>1. NearestOf("stable", newest, target) = foreign
  BY DEF NearestOf
<1>2. rec = IF all = {} THEN Refused
            ELSE IF native # {} THEN Direct(s, target, MostCompatible(native, target), all, TRUE)
            ELSE IF \A c \in newest : c.kernel = <<>> THEN Direct(s, target, Latest(newest), all, FALSE)
            ELSE IF ~s.whenIncompatible \/ (s.local = None /\ s.adaptive = None) THEN Refused
            ELSE IF s.adaptive # None THEN AdaptivePort(s, NearestOf("stable", newest, target), all)
            ELSE LocalPort(s, NearestOf("stable", newest, target), all, file)
  BY Zenon DEF ResolveGithub
<1>3. rec.ok /\ ~Refused.ok
  BY DEF Refused
<1> HIDE DEF all, newest, native, foreign, rec
<1>4. rec # Refused
  BY <1>3
<1>5. /\ all # {}
      /\ \/ native # {} /\ rec = Direct(s, target, MostCompatible(native, target), all, TRUE)
         \/ /\ native = {} /\ (\A c \in newest : c.kernel = <<>>)
            /\ rec = Direct(s, target, Latest(newest), all, FALSE)
         \/ /\ native = {} /\ (\E c \in newest : c.kernel # <<>>)
            /\ s.local # None \/ s.adaptive # None
            /\ s.adaptive # None => rec = AdaptivePort(s, foreign, all)
            /\ s.adaptive = None => rec = LocalPort(s, foreign, all, file)
  BY <1>1, <1>2, <1>4
<1> QED BY <1>5 DEF all, newest, native, foreign, rec

\* What the 7.2 resolver writes, the audit accepts as long as upstream is the same.
LEMMA ResolvedPasses ==
  ASSUME TypeOK, Declared, policy = "stable", spec.kind = "github_tree", NumbersApart,
         \A f \in LatestProjectCandidates(UpstreamCandidates(tree)) : Len(f.kernel) # 3,
         Resolve(policy, spec, Target(policy, Kernel), tree, urls, port).ok
  PROVE  AuditComponent(spec, NormalizeLock(Resolve(policy, spec, Target(policy, Kernel),
                                                    tree, urls, port), Kernel), Kernel, tree)
<1> DEFINE rec == Resolve(policy, spec, Target(policy, Kernel), tree, urls, port)
           lk == NormalizeLock(rec, Kernel)
           T == Series(Kernel)
           all == UpstreamCandidates(tree)
           newest == LatestProjectCandidates(all)
           native == NativeSeries(newest, Kernel)
           near == Nearest(newest, Kernel, OrdinalDistance)
           nearT == Nearest(newest, T, OrdinalDistance)
           top == Latest(newest)
<1>1. rec = ResolveGithub("stable", spec, T, tree, port) /\ rec.ok
  BY DEF Resolve, Target, Refused
<1>2. Resolved(spec, port, rec)
  BY ResolveForm
<1>3. /\ NativeSeries(newest, T) = native
      /\ native # {} => MostCompatible(native, T) = MostCompatible(native, Kernel)
      /\ (\E c \in newest : c.kernel # <<>>) => nearT = near
  BY SameChoice
<1>4. IsFiniteSet(all) /\ \A f \in all : IsCandidate(f)
  BY TreeCandidates
<1>5. all # {}
  BY <1>1, GithubChoice
<1>6. newest \subseteq all /\ newest # {} /\ IsFiniteSet(newest) /\ \A f \in newest : IsCandidate(f)
  <2> HIDE DEF all
  <2> QED BY <1>4, <1>5, NewestReleaseExists, FS_Subset
<1>7. \/ native # {} /\ rec = Direct(spec, T, MostCompatible(native, Kernel), all, TRUE)
      \/ native = {} /\ (\A c \in newest : c.kernel = <<>>) /\ rec = Direct(spec, T, top, all, FALSE)
      \/ /\ native = {} /\ (\E c \in newest : c.kernel # <<>>)
         /\ spec.local # None \/ spec.adaptive # None
         /\ spec.adaptive # None => rec = AdaptivePort(spec, near, all)
         /\ spec.adaptive = None => rec = LocalPort(spec, near, all, port)
  <2> DEFINE nativeT == NativeSeries(newest, T)
  <2>1. \/ nativeT # {} /\ rec = Direct(spec, T, MostCompatible(nativeT, T), all, TRUE)
        \/ nativeT = {} /\ (\A c \in newest : c.kernel = <<>>) /\ rec = Direct(spec, T, top, all, FALSE)
        \/ /\ nativeT = {} /\ (\E c \in newest : c.kernel # <<>>)
           /\ spec.local # None \/ spec.adaptive # None
           /\ spec.adaptive # None => rec = AdaptivePort(spec, nearT, all)
           /\ spec.adaptive = None => rec = LocalPort(spec, nearT, all, port)
    BY <1>1, GithubChoice, Zenon
  <2>2. nativeT = native
    BY <1>3
  <2> HIDE DEF rec, native, nativeT, near, nearT, newest, T, all, top
  <2> QED BY <1>3, <2>1, <2>2
<1>8. /\ native # {} => MostCompatible(native, Kernel) \in newest
      /\ (\E c \in newest : c.kernel # <<>>) => near \in newest
      /\ top \in newest
  <2>1. native \subseteq newest
    BY DEF NativeSeries
  <2> HIDE DEF newest, native
  <2>2. IsFiniteSet(native) /\ \A f \in native : IsCandidate(f)
    BY <1>6, <2>1, FS_Subset
  <2>3. native # {} => MostCompatible(native, Kernel) \in native
    BY <2>2, MostCompatibleGreatest
  <2>4. (\E c \in newest : c.kernel # <<>>) => near \in newest
    BY <1>6, KernelNumbers, NearestMember
  <2>5. top \in newest
    BY <1>6, LatestGreatest
  <2> QED BY <2>1, <2>3, <2>4, <2>5
<1>9. \A c, d \in newest : /\ c.project = None <=> d.project = None
                           /\ ProjectVersionKey(c.project) = ProjectVersionKey(d.project)
  <2> HIDE DEF all
  <2> QED BY <1>4, NewestReleaseOne
<1>10. spec.local = None \/ spec.adaptive = None
  BY DEF Declared
<1> HIDE DEF rec, T, all, newest, native, near, nearT, top
<1>11. \E c \in newest :
         /\ SourceOf(lk).project = c.project
         /\ SourceOf(lk).latest = IF c.project = None THEN None ELSE top.project
         /\ IF native # {} THEN Follows(lk, "latest-native-series", "upstream-native",
                                        MostCompatible(native, Kernel))
            ELSE IF \E f \in newest : f.kernel # <<>> THEN
              /\ spec.local # None \/ spec.adaptive # None
              /\ Follows(lk, PortSelection(spec)[1], PortSelection(spec)[2], near)
            ELSE Follows(lk, "latest-kernel-agnostic", "upstream-kernel-agnostic", top)
  <2>1. CASE native # {} /\ rec = Direct(spec, T, MostCompatible(native, Kernel), all, TRUE)
    <3>1. Names(rec, "latest-native-series", "upstream-native", MostCompatible(native, Kernel), all)
      BY <2>1, DirectNames
    <3>2. Names(lk, "latest-native-series", "upstream-native", MostCompatible(native, Kernel), all)
      BY <1>2, <3>1, NormalizeNames
    <3> HIDE DEF lk
    <3> QED BY <1>8, <2>1, <3>2 DEF Names, top, newest
  <2>2. CASE /\ native = {} /\ (\A c \in newest : c.kernel = <<>>)
             /\ rec = Direct(spec, T, top, all, FALSE)
    <3>1. Names(rec, "latest-kernel-agnostic", "upstream-kernel-agnostic", top, all)
      BY <2>2, DirectNames
    <3>2. Names(lk, "latest-kernel-agnostic", "upstream-kernel-agnostic", top, all)
      BY <1>2, <3>1, NormalizeNames
    <3> HIDE DEF lk
    <3> QED BY <1>8, <2>2, <3>2 DEF Names, top, newest
  <2>3. CASE /\ native = {} /\ (\E c \in newest : c.kernel # <<>>)
             /\ spec.local # None \/ spec.adaptive # None
             /\ spec.adaptive # None => rec = AdaptivePort(spec, near, all)
             /\ spec.adaptive = None => rec = LocalPort(spec, near, all, port)
    <3>1. Names(rec, PortSelection(spec)[1], PortSelection(spec)[2], near, all)
      BY <1>1, <1>10, <2>3, AdaptiveNames, LocalNames DEF PortSelection
    <3>2. Names(lk, PortSelection(spec)[1], PortSelection(spec)[2], near, all)
      BY <1>2, <3>1, NormalizeNames
    <3> HIDE DEF lk
    <3> QED BY <1>8, <2>3, <3>2 DEF Names, top, newest
  <2> QED BY <1>7, <2>1, <2>2, <2>3
<1>12. top.project # None => /\ ProjectVersionKey(SourceOf(lk).project) = ProjectVersionKey(top.project)
                             /\ SourceOf(lk).latest = top.project
  BY <1>8, <1>9, <1>11
<1> HIDE DEF lk
<1>13. AuditComponent(spec, lk, Kernel, tree)
  BY <1>6, <1>11, <1>12 DEF AuditComponent, newest, all, native, near, top
<1> QED BY <1>13 DEF lk, rec

(* While the newest release has variants that name series and no patch     *)
(* levels, what the resolver of the 7.2 builds selects for the series is   *)
(* what the audit selects for the kernel, native or not, and passes it.    *)
THEOREM ResolverPassesAudit == NumbersApart /\ Spec => AuditAgreesOnSeries
<1> SUFFICES ASSUME NumbersApart PROVE Spec => AuditAgreesOnSeries
  OBVIOUS
<1>1. IInv /\ [Next]_vars =>
        [resolver = "idle" /\ resolver' = "target" /\ policy = "stable"
         /\ spec.kind = "github_tree"
         /\ (\A f \in LatestProjectCandidates(UpstreamCandidates(tree)) : Len(f.kernel) # 3)
           => AuditComponent(spec, NormalizeLock(pending', Kernel), Kernel, tree)]_vars
  <2> SUFFICES ASSUME IInv, [Next]_vars, resolver = "idle", resolver' = "target",
                      policy = "stable", spec.kind = "github_tree",
                      \A f \in LatestProjectCandidates(UpstreamCandidates(tree)) : Len(f.kernel) # 3
               PROVE  AuditComponent(spec, NormalizeLock(pending', Kernel), Kernel, tree)
    OBVIOUS
  <2>1. WriteTarget
    BY DEF Next, vars, workspace, Publish, Serve, Review, WriteLock, NormalizeSchema5Lock,
           ResolverStops, Validate, Apply
  <2>2. /\ Resolve(policy, spec, Target(policy, Kernel), tree, urls, port).ok
        /\ pending' = Resolve(policy, spec, Target(policy, Kernel), tree, urls, port)
    BY <2>1 DEF WriteTarget
  <2> QED BY <2>2, ResolvedPasses DEF IInv
<1> QED BY <1>1, Invariant, PTL DEF Spec, AuditAgreesOnSeries
===============================================================================
