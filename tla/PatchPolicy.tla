----------------------------- MODULE PatchPolicy -----------------------------
(***************************************************************************)
(* The patch source policy of automation/: which upstream file a component *)
(* of the manifest resolves to (resolve-latest-patches.py and the 7.2      *)
(* entry point that replaces two of its functions), which lock records the *)
(* validator and the audit accept, and what the applicator does with one.  *)
(*                                                                         *)
(* Pure operators, without state.  A candidate is a record                 *)
(*   [path, digits, kernel, project, commit, bytes]:                       *)
(* path is the rank of its path among the paths, digits the numbers in it, *)
(* kernel a sequence of two or three numbers or <<>>, project a version    *)
(* [core, stage, serial] or None.  Bytes stand for themselves and for      *)
(* their SHA-256; Junk is anything that does not look like a patch.  A     *)
(* version string is the record it parses to: 1.3 and 1.3.0 differ as      *)
(* strings and are equal as keys.                                          *)
(***************************************************************************)
EXTENDS Integers, Sequences, FiniteSets

CONSTANTS None, Junk

Less(a, b) ==
  \E i \in DOMAIN b :
    /\ i <= Len(a) + 1
    /\ \A j \in 1..(i - 1) : a[j] = b[j]
    /\ i <= Len(a) => a[i] < b[i]

KeyLess(a, b) ==
  \E i \in DOMAIN b :
    /\ \A j \in 1..(i - 1) : a[j] = b[j]
    /\ Less(a[i], b[i])

Largest(S, Key(_)) ==
  CHOOSE c \in S : \A d \in S : ~KeyLess(Key(c), Key(d))

Pad(s, n) == [i \in 1..n |-> IF i \in DOMAIN s THEN s[i] ELSE 0]

Series(kernel) == SubSeq(kernel, 1, 2)

StageRank == [alpha |-> 0, beta |-> 1, pre |-> 2, rc |-> 3, plain |-> 4, r |-> 5]

\* Mutated: the stage of a release is not compared.
ProjectVersionKeyCore(v) == IF v = None THEN Pad(<<>>, 8) ELSE Pad(v.core, 8)

\* The zeros of a version that does not parse are below every release.
ProjectVersionKey(v) ==
  IF v = None \/ v.core = <<>>
    THEN Pad(<<>>, 10)
    ELSE Pad(v.core, 8) \o <<StageRank[v.stage], v.serial>>

LatestKey(c) ==
  << IF c.project # None THEN ProjectVersionKey(c.project) ELSE c.digits,
     IF c.kernel # <<>> THEN c.kernel ELSE <<0>>,
     <<c.path>> >>

Compatibility(kernel, target) ==
  IF kernel = target THEN 3
  ELSE IF kernel # <<>> /\ Series(kernel) = Series(target) THEN 2
  ELSE 0

CompatibleKey(c, target) == << <<Compatibility(c.kernel, target)>> >> \o LatestKey(c)

\* max(..., key=latest_key) and max(..., key=compatible_key).
Latest(cands) == Largest(cands, LatestKey)

MostCompatible(cands, target) == Largest(cands, LAMBDA c : CompatibleKey(c, target))

\* A tree is a set of blobs; listed ones match filename_regex and not
\* exclude_regex.
UpstreamCandidates(tree) == {f \in tree : f.listed}

LatestProjectCandidates(cands) ==
  LET versioned == {c \in cands : c.project # None}
  IN  IF versioned = {}
        THEN cands
        ELSE {c \in versioned : \A d \in versioned :
                ~Less(ProjectVersionKey(c.project), ProjectVersionKey(d.project))}

NativeSeries(cands, target) == {c \in cands : Compatibility(c.kernel, target) >= 2}

Abs(n) == IF n < 0 THEN -n ELSE n

\* nearest_candidate of the base resolver: a distance for each number.
ComponentDistance(kernel, target) ==
  LET a == Pad(kernel, 3)  b == Pad(target, 3)
  IN  Abs(a[1] - b[1]) * 1000000 + Abs(a[2] - b[2]) * 1000 + Abs(a[3] - b[3])

KernelOrdinal(kernel) ==
  LET a == Pad(kernel, 3) IN a[1] * 1000000 + a[2] * 1000 + a[3]

\* nearest_candidate_72 and the audit: a distance along one line.
OrdinalDistance(kernel, target) == Abs(KernelOrdinal(kernel) - KernelOrdinal(target))

Nearest(cands, target, Distance(_, _)) ==
  LET known == {c \in cands : c.kernel # <<>>}
  IN  Latest({c \in known : \A d \in known :
                Distance(c.kernel, target) <= Distance(d.kernel, target)})

\* Mutated: the 7.2 entry point leaves the base distance in place.
NearestOfBase(policy, cands, target) == Nearest(cands, target, ComponentDistance)

NearestOf(policy, cands, target) ==
  IF policy = "base" THEN Nearest(cands, target, ComponentDistance)
                     ELSE Nearest(cands, target, OrdinalDistance)

-----------------------------------------------------------------------------
(* Resolution.  A component of the manifest is a record                    *)
(*   [kind, local, adaptive, scope, version, sha, whenIncompatible,        *)
(*    versioned, pinned]                                                   *)
(* (local_port, adaptive_port, port_for_kernel, local_port_project_version,*)
(* local_port_upstream_sha256, port_when_incompatible, whether it has a    *)
(* project_version_regex, whether it declares the path and commit of an    *)
(* HTTP source).                                                           *)

Refused == [ok |-> FALSE]

Source(c, latest) == [path |-> c.path, commit |-> c.commit, kernel |-> c.kernel,
                      project |-> c.project, latest |-> latest, sha |-> None]

Record(origin, selection, top) ==
  [ok |-> TRUE, origin |-> origin, selection |-> selection, top |-> top,
   upstream |-> None, adapter |-> None, fallback |-> None, data |-> None]

FallbackMetadata(spec, kernel, project) ==
  IF spec.local # None
    THEN IF project # None /\ spec.version # None /\ spec.version # project
           THEN None
           ELSE [kind |-> "local-port", port |-> spec.local, kernel |-> kernel,
                 project |-> spec.version, sha |-> spec.sha]
  ELSE IF spec.adaptive # None
    THEN [kind |-> "adaptive-port", port |-> spec.adaptive, kernel |-> kernel,
          project |-> None, sha |-> None]
  ELSE None

\* The release metadata a selected candidate carries.
Upstream(c, all) ==
  Source(c, IF c.project = None THEN None
            ELSE Latest(LatestProjectCandidates(all)).project)

Direct(spec, target, c, all, native) ==
  [Record(IF native THEN "upstream-native" ELSE "upstream-kernel-agnostic",
          IF native THEN "latest-native-series" ELSE "latest-kernel-agnostic",
          Upstream(c, all))
   EXCEPT !.fallback = FallbackMetadata(spec, target, c.project), !.data = c.bytes]

AdaptivePort(spec, c, all) ==
  IF c.bytes = Junk
    THEN Refused
    ELSE [Record("adaptive-port", "latest-release-adaptive-port", Upstream(c, all))
          EXCEPT !.adapter = spec.adaptive, !.data = c.bytes]

\* port is what the file of the local port holds.
LocalPort(spec, c, all, port) ==
  IF \/ c.bytes = Junk \/ port = Junk
     \/ spec.sha = None \/ c.bytes # spec.sha
     \/ c.project # None /\ spec.version # c.project
    THEN Refused
    ELSE [Record("local-port", "latest-release-port",
                 [path |-> spec.local, commit |-> "repository-local", kernel |-> <<>>,
                  project |-> None, latest |-> None, sha |-> None])
          EXCEPT !.upstream = [Upstream(c, all) EXCEPT !.sha = c.bytes], !.data = port]

ResolveGithub(policy, spec, target, tree, port) ==
  LET all    == UpstreamCandidates(tree)
      newest == LatestProjectCandidates(all)
      native == NativeSeries(newest, target)
      foreign == NearestOf(policy, newest, target)
  IN  IF all = {} THEN Refused
      ELSE IF native # {} THEN
        Direct(spec, target, MostCompatible(native, target), all, TRUE)
      ELSE IF \A c \in newest : c.kernel = <<>> THEN
        Direct(spec, target, Latest(newest), all, FALSE)
      ELSE IF ~spec.whenIncompatible \/ (spec.local = None /\ spec.adaptive = None) THEN Refused
      ELSE IF spec.adaptive # None THEN AdaptivePort(spec, foreign, all)
      ELSE LocalPort(spec, foreign, all, port)

\* One URL that answers with bytes: the record, or Refused to try the next.
FromUrl(policy, spec, target, bytes, port) ==
  LET top == [path |-> spec.pinned, commit |-> spec.pinned, kernel |-> <<>>,
              project |-> None, latest |-> None, sha |-> None]
      direct == [Record("upstream-fixed", "first-valid", top) EXCEPT !.data = bytes]
  IN  IF bytes = Junk THEN Refused
      ELSE IF spec.local = None THEN direct
      ELSE IF port = Junk \/ spec.sha = None \/ bytes # spec.sha THEN Refused
      ELSE IF policy = "base"
        THEN [direct EXCEPT !.fallback = FallbackMetadata(spec, target, None)]
        ELSE [Record("local-port", "first-valid-port",
                     [top EXCEPT !.path = spec.local, !.commit = "repository-local"])
              EXCEPT !.upstream = [top EXCEPT !.sha = bytes], !.data = port]

ResolveHttp(policy, spec, target, urls, port) ==
  LET usable == {i \in DOMAIN urls : FromUrl(policy, spec, target, urls[i], port).ok}
      first  == CHOOSE i \in usable : \A j \in usable : i <= j
  IN  IF usable = {} THEN Refused ELSE FromUrl(policy, spec, target, urls[first], port)

\* Mutated: main does not check that the bytes it locks look like a patch.
ResolveUnchecked(policy, spec, target, tree, urls, port) ==
  IF spec.kind = "github_tree" THEN ResolveGithub(policy, spec, target, tree, port)
                               ELSE ResolveHttp(policy, spec, target, urls, port)

\* resolve_component, and the check of main on the bytes it locks.
Resolve(policy, spec, target, tree, urls, port) ==
  LET rec == IF spec.kind = "github_tree"
               THEN ResolveGithub(policy, spec, target, tree, port)
               ELSE ResolveHttp(policy, spec, target, urls, port)
  IN  IF rec.ok /\ rec.data # Junk THEN rec ELSE Refused

\* The 7.2 entry point resolves for the series; its lock names the kernel.
Target(policy, kernel) == IF policy = "base" THEN kernel ELSE Series(kernel)

NormalizeLock(rec, kernel) ==
  IF rec.fallback = None \/ rec.fallback.kernel # Series(kernel)
    THEN rec
    ELSE [rec EXCEPT !.fallback = [rec.fallback EXCEPT !.kernel = kernel]]

-----------------------------------------------------------------------------
(* Validation (validate-patch-lock.py).                                    *)

PortKernel(spec, kernel) ==
  /\ spec.scope # None
  /\ spec.scope = kernel \/ spec.scope = Series(kernel)

PortLineage(spec, source, digest) ==
  /\ spec.versioned => spec.version # None
  /\ spec.version # None => source.project = spec.version
  /\ spec.sha # None => digest = spec.sha

ValidFallback(spec, rec, kernel) ==
  LET fallback == rec.fallback
  IN  /\ fallback # None
      /\ PortKernel(spec, kernel)
      /\ fallback.kernel = kernel
      /\ IF spec.local # None
           THEN /\ fallback.kind = "local-port" /\ fallback.port = spec.local
                /\ fallback.project = spec.version /\ fallback.sha = spec.sha
                /\ PortLineage(spec, rec.top, rec.data)
           ELSE fallback.kind = "adaptive-port" /\ fallback.port = spec.adaptive

SourceOf(rec) == IF rec.origin = "local-port" THEN rec.upstream ELSE rec.top

ValidSelection(rec, kernel) ==
  \/ /\ rec.selection = "latest-native-series" /\ rec.origin = "upstream-native"
     /\ Series(rec.top.kernel) = Series(kernel)
  \/ rec.selection = "latest-release-port" /\ rec.origin = "local-port"
  \/ rec.selection = "latest-release-adaptive-port" /\ rec.origin = "adaptive-port"
  \/ rec.selection = "latest-kernel-agnostic" /\ rec.origin = "upstream-kernel-agnostic"

\* A native patch of another revision than the reviewed port's: no fallback.
StaleRevision(spec, rec) ==
  /\ spec.kind = "github_tree" /\ rec.origin = "upstream-native"
  /\ rec.top.project # None /\ spec.version # None /\ rec.top.project # spec.version

\* Mutated: a record without fallback is accepted for any reason.
ValidateRecordBare(spec, rec, kernel) ==
  /\ spec.kind = "github_tree" =>
       ValidSelection(rec, kernel) /\ SourceOf(rec).commit \notin {None, "repository-local"}
  /\ rec.origin = "local-port" =>
       PortKernel(spec, kernel) /\ PortLineage(spec, rec.upstream, rec.upstream.sha)
  /\ rec.fallback # None => ValidFallback(spec, rec, kernel)

ValidateRecord(spec, rec, kernel) ==
  /\ spec.local = None \/ spec.adaptive = None
  /\ spec.kind = "github_tree" =>
       ValidSelection(rec, kernel) /\ SourceOf(rec).commit \notin {None, "repository-local"}
  /\ spec.kind = "http_patch" =>
       /\ rec.origin = "upstream-fixed" /\ rec.selection = "first-valid"
       /\ spec.local # None => rec.top.commit # None
  /\ spec.adaptive # None =>
       IF rec.origin = "adaptive-port"
         THEN PortKernel(spec, kernel) /\ rec.adapter = spec.adaptive
         ELSE ValidFallback(spec, rec, kernel)
  /\ spec.local # None =>
       IF rec.origin = "local-port"
         THEN PortKernel(spec, kernel) /\ PortLineage(spec, rec.upstream, rec.upstream.sha)
         ELSE \/ StaleRevision(spec, rec) /\ rec.fallback = None
              \/ ValidFallback(spec, rec, kernel)

-----------------------------------------------------------------------------
(* Audit (audit-latest-patch-versions.py): upstream is read again.         *)

Follows(rec, selection, origin, c) ==
  /\ rec.selection = selection /\ rec.origin = origin
  /\ SourceOf(rec).path = c.path /\ SourceOf(rec).commit = c.commit

PortSelection(spec) ==
  IF spec.local # None THEN <<"latest-release-port", "local-port">>
                       ELSE <<"latest-release-adaptive-port", "adaptive-port">>

AuditComponent(spec, rec, kernel, tree) ==
  LET latest  == LatestProjectCandidates(UpstreamCandidates(tree))
      version == Latest(latest).project
      native  == NativeSeries(latest, kernel)
  IN  /\ latest # {}
      /\ version # None =>
           /\ ProjectVersionKey(SourceOf(rec).project) = ProjectVersionKey(version)
           /\ SourceOf(rec).latest = version
      /\ IF native # {} THEN
           Follows(rec, "latest-native-series", "upstream-native",
                   MostCompatible(native, kernel))
         ELSE IF \E c \in latest : c.kernel # <<>> THEN
           /\ spec.local # None \/ spec.adaptive # None
           /\ Follows(rec, PortSelection(spec)[1], PortSelection(spec)[2],
                      Nearest(latest, kernel, OrdinalDistance))
         ELSE
           Follows(rec, "latest-kernel-agnostic", "upstream-kernel-agnostic",
                   Latest(latest))

-----------------------------------------------------------------------------
(* Application (apply-resolved-patch.py).  disk is what the target file    *)
(* holds, fits says which of "direct", "port" and "adapted" apply to the   *)
(* source tree, integrated that one of the three known detectors finds the *)
(* change in the tree already.                                             *)

Adapters == {"lru-cast-context", "poc-selector-valve"}

\* Mutated: the bytes of the reviewed source are not compared.
RequireLineageUnpinned(spec, source, digest, kernel) ==
  /\ PortKernel(spec, kernel)
  /\ spec.version # None => source.project = spec.version

RequireLineage(spec, source, digest, kernel) ==
  /\ PortKernel(spec, kernel)
  /\ spec.sha # None /\ digest = spec.sha
  /\ spec.version # None => source.project = spec.version

RequireFallback(spec, rec, kernel) ==
  LET fallback == rec.fallback
  IN  /\ fallback # None
      /\ fallback.kernel = kernel
      /\ IF spec.local # None
           THEN /\ fallback.kind = "local-port" /\ fallback.port = spec.local
                /\ fallback.sha = spec.sha
                /\ RequireLineage(spec, rec.top, rec.data, kernel)
           ELSE /\ spec.adaptive # None
                /\ fallback.kind = "adaptive-port" /\ fallback.port = spec.adaptive
                /\ PortKernel(spec, kernel)

\* The policy refuses, whatever the source tree is.
PolicyRefuses(spec, rec, kernel) ==
  CASE rec.origin = "local-port" ->
         ~RequireLineage(spec, rec.upstream, rec.upstream.sha, kernel)
    [] rec.origin = "adaptive-port" ->
         rec.adapter # spec.adaptive \/ ~PortKernel(spec, kernel)
    [] OTHER -> ~RequireFallback(spec, rec, kernel)

Adapt(adapter, fits) == adapter \in Adapters /\ "adapted" \in fits

ApplyFallback(spec, rec, kernel, fits) ==
  IF PolicyRefuses(spec, rec, kernel) THEN "refused"
  ELSE IF rec.fallback.kind = "local-port" /\ "port" \in fits THEN "local-port-fallback"
  ELSE IF rec.fallback.kind = "adaptive-port" /\ Adapt(rec.fallback.port, fits)
    THEN "adaptive-port-fallback"
  ELSE "refused"

ApplyComponent(spec, rec, kernel, disk, fits, integrated) ==
  IF disk # rec.data THEN "refused"
  ELSE IF rec.origin = "local-port" THEN
    IF ~PolicyRefuses(spec, rec, kernel) /\ "port" \in fits THEN "local-port" ELSE "refused"
  ELSE IF rec.origin = "adaptive-port" THEN
    IF ~PolicyRefuses(spec, rec, kernel) /\ Adapt(rec.adapter, fits)
      THEN "adaptive-port" ELSE "refused"
  ELSE IF "direct" \in fits THEN
    IF rec.origin = "upstream-native" THEN "upstream-native" ELSE "upstream"
  ELSE IF integrated THEN "already-integrated"
  ELSE ApplyFallback(spec, rec, kernel, fits)
=============================================================================
