----------------------------- MODULE KernelSource -----------------------------
(***************************************************************************)
(* Which kernel a build is made of: the stable image and its package       *)
(* (prepare-steamos-stable.py), the newest package of the source index     *)
(* (prepare-steamos-7.2.py), and the tag of Valve's mirror that the        *)
(* resolvers lock for it.  Pure operators.                                 *)
(*                                                                         *)
(* A package is [series, core, rc, valve, beta, pkgrel]: the series in its *)
(* name; the three numbers, the rc (-1: none), the numbers after "valve"   *)
(* (3.1 is <<3, 1>>, a bare "valve" <<>>) and the beta (0: none) of its    *)
(* version; its release.  A tag is [core, rc, valve, beta, dotted], where  *)
(* dotted says that dots, and not dashes, separate the valve numbers.      *)
(***************************************************************************)
EXTENDS PatchPolicy

\* The newest image of the metadata marked stable (for amd64 and the Deck), or
\* Refused; an image is [branch, valid, version, build].
StableImage(metadata) ==
  LET candidates == {i \in metadata : i.branch = "stable"}
  IN  IF candidates = {} \/ \E i \in candidates : ~i.valid
        THEN Refused
        ELSE [ok |-> TRUE,
              image |-> Largest(candidates, LAMBDA i : <<i.version, i.build>>)]

\* The one stock kernel in the package list of an image, or Refused.
KernelPackage(packages) ==
  IF \/ Cardinality(packages) # 1
     \/ \E p \in packages : p.rc >= 0 \/ p.beta > 0 \/ p.valve = <<>> \/ p.series # Series(p.core)
    THEN Refused
    ELSE [ok |-> TRUE, package |-> CHOOSE p \in packages : TRUE]

\* package_version_to_tag puts a dash before every token after the third: also
\* before the second number of a dotted valve serial.
TagOf(p) == [core |-> p.core, rc |-> p.rc, valve |-> p.valve, beta |-> p.beta,
             dotted |-> Len(p.valve) <= 1]

\* The tag_regex of the prepared manifests: stable, and the 7.2 index.
StablePolicy(tag, series) ==
  /\ Series(tag.core) = series /\ tag.rc < 0 /\ tag.beta = 0
  /\ tag.valve # <<>> /\ tag.dotted

IndexPolicy(tag, allowPrerelease) ==
  /\ Series(tag.core) = <<7, 2>>
  /\ tag.rc >= 0 => allowPrerelease

\* preferred_kernel_tag: the tag of the manifest, which the mirror must have.
PreferredTag(tag, policyMatches, mirror) ==
  IF policyMatches /\ tag \in mirror THEN [ok |-> TRUE, tag |-> tag] ELSE Refused

\* validate_kernel, for a manifest without an index.
ValidKernel(kernel, policyMatches, series) ==
  /\ kernel.commit # None
  /\ policyMatches /\ kernel.version = kernel.tag.core /\ kernel.tag.rc < 0
  /\ Series(kernel.version) = series

LastFour(s) == IF Len(s) <= 4 THEN s ELSE SubSeq(s, Len(s) - 3, Len(s))

PackageRank(p) ==
  p.core
    \o << IF p.rc < 0 THEN 1 ELSE 0, IF p.rc < 0 THEN 1000000 ELSE p.rc,
          IF p.valve = <<>> \/ p.beta > 0 THEN 0 ELSE 1,
          IF p.valve = <<>> THEN 0 ELSE p.valve[1], p.beta >>
    \o (IF p.valve = <<>> THEN <<>> ELSE LastFour(Tail(p.valve)))
    \o <<p.pkgrel>>

\* The links of the index that name a linux-neptune-72 package.
IndexPackages(packages) == {p \in packages : p.series = <<7, 2>>}

NewestPackage(packages, allowPrerelease) ==
  LET items == {p \in packages : allowPrerelease \/ (p.rc < 0 /\ p.beta = 0)}
  IN  IF items = {} THEN Refused
      ELSE [ok |-> TRUE, package |-> Largest(items, LAMBDA p : <<PackageRank(p)>>)]
=============================================================================
