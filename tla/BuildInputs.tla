------------------------------ MODULE BuildInputs ------------------------------
(***************************************************************************)
(* The job that turns what Valve and the patch projects publish into one   *)
(* set of build inputs: push.yml (channel "stable") and                    *)
(* build-kernel-7.2.yml ("index") with the scripts they call, which write  *)
(* the workspace file by file.  Any step may fail or be killed; the next   *)
(* job starts in a fresh checkout or, locally, in what the last one left.  *)
(* Upstream moves at any time between two requests.                        *)
(*                                                                         *)
(* A revision of a repository is a number, the bytes of a patch file are   *)
(* the revision of its repository, and a config or a log stands for the    *)
(* package it was taken from.  Which file of a revision is selected is     *)
(* PatchPolicy's matter.                                                   *)
(***************************************************************************)
EXTENDS KernelSource

CONSTANTS Images,        \* the images Valve publishes, in any order
          Stock,         \* the kernel packages in the package list of each
          Components,    \* the patch components, as a sequence
          RepositoryOf,  \* the repository of each
          Drivers,       \* the controller driver repositories
          Faults,        \* what a program refuses for good: at a step, for a kernel
                         \* tag, revisions that are together in the build
          Torn, Skip,    \* a PKGBUILD whose writer was killed, and the sums that
                         \* check nothing
          MaxPushes, MaxFailures  \* bounds

ComponentSet == {Components[i] : i \in DOMAIN Components}
Repositories == {RepositoryOf[c] : c \in ComponentSet}

ASSUME BuildInputsAssumption ==
  /\ MaxPushes \in Nat /\ MaxFailures \in Nat
  /\ Drivers \cap Repositories = {}
  /\ Components \in Seq(ComponentSet) /\ Components # <<>>
  /\ \A f \in Faults : /\ f.at \in {"select", "patches", "validate", "audit", "build"}
                       /\ DOMAIN f.files \subseteq ComponentSet \cup Drivers

\* The parsers let only numbers into the versions of images and packages; the
\* package list of an image is finite.
ASSUME PackagesAssumption ==
  \A i \in Images :
    /\ i.valid => i.version \in Seq(Nat) /\ i.build \in Seq(Nat)
    /\ IsFiniteSet(Stock[i])
    /\ \A p \in Stock[i] : /\ p.core \in Seq(Nat) /\ Len(p.core) = 3
                          /\ p.rc \in Int /\ p.valve \in Seq(Nat)
                          /\ p.beta \in Nat /\ p.pkgrel \in Nat

\* The scripts name the driver repositories.
ASSUME DriversAssumption == IsFiniteSet(Drivers)

VARIABLES world,     \* what the servers answer, and how often they changed
          channel,   \* the workflow
          pc,        \* the step of the job
          job,       \* what the running script has in memory
          ws,        \* the files of the workspace
          instant,   \* history: the heads when the last validation began
          built,     \* the inputs of the last package built
          failures

vars == <<world, channel, pc, job, ws, instant, built, failures>>

Bootstrap == [core |-> <<7, 2, 7>>, rc |-> -1, valve |-> <<2>>, beta |-> 0, dotted |-> TRUE]

Digests(files, config) == [files |-> files, config |-> config]

NoPatches == [c \in ComponentSet |-> 0]

Checkout ==
  [pkgbuild   |-> [series |-> <<7, 2>>, tag |-> Bootstrap, sums |-> Digests(NoPatches, None),
                   drivers |-> [d \in Drivers |-> 0]],
   config     |-> None,
   logs       |-> [manifest |-> None, overrides |-> None, record |-> None],
   driverLock |-> None,
   files      |-> NoPatches,
   lock       |-> None,
   sums       |-> None]

Idle == [source |-> None, drivers |-> <<>>, tag |-> None, trees |-> <<>>, got |-> <<>>,
         written |-> 0, todo |-> {}, pass |-> 0]

Init ==
  /\ \E first \in Images :
       world = [metadata |-> {first}, archives |-> Stock[first],
                mirror |-> {TagOf(p) : p \in Stock[first]},
                heads |-> [r \in Repositories \cup Drivers |-> 1], pushes |-> 0]
  /\ channel \in {"stable", "index"}
  /\ pc = "drivers" /\ job = Idle /\ ws = Checkout
  /\ instant = None /\ built = None /\ failures = 0

-----------------------------------------------------------------------------
(* Valve and the projects.                                                 *)

World(new) ==
  /\ world' = new
  /\ UNCHANGED <<channel, pc, job, ws, instant, built, failures>>

Push(r) ==
  /\ world.pushes < MaxPushes
  /\ World([world EXCEPT !.heads[r] = @ + 1, !.pushes = @ + 1])

ReleaseImage(i) == i \notin world.metadata /\ World([world EXCEPT !.metadata = @ \cup {i}])

Archive(p) == p \notin world.archives /\ World([world EXCEPT !.archives = @ \cup {p}])

Mirror(p) ==
  TagOf(p) \notin world.mirror /\ World([world EXCEPT !.mirror = @ \cup {TagOf(p)}])

Published == UNION {Stock[i] : i \in Images}

-----------------------------------------------------------------------------
(* The steps of the job.                                                   *)

Step(from, to) == pc = from /\ pc' = to /\ UNCHANGED <<world, channel, built, failures>>

Write(new) == ws' = new /\ UNCHANGED <<job, instant>>

Keep(new) == job' = new /\ UNCHANGED <<ws, instant>>

\* resolve-controller-drivers.py resolves all drivers before it writes.
ResolveDriver(d) ==
  /\ d \notin DOMAIN job.drivers
  /\ LET known == DOMAIN job.drivers \cup {d}
     IN  /\ Step("drivers", IF known = Drivers THEN "driverlock" ELSE "drivers")
         /\ Keep([job EXCEPT !.drivers = [e \in known |-> IF e = d THEN world.heads[d]
                                                                   ELSE job.drivers[e]]])

WriteDriverLock ==
  /\ Step("driverlock", "driversources") /\ ws.pkgbuild # Torn
  /\ Write([ws EXCEPT !.driverLock = job.drivers])

WriteDriverSources ==
  /\ Step("driversources", "normalize")
  /\ Write([ws EXCEPT !.pkgbuild.drivers = job.drivers])

\* prepare-pkgbuild-7.2.py.
NormalizePkgbuild ==
  /\ Step("normalize", "source") /\ ws.pkgbuild # Torn
  /\ Write([ws EXCEPT !.pkgbuild.series = <<7, 2>>, !.pkgbuild.tag = Bootstrap])

StableSource ==
  LET stable == StableImage(world.metadata)
  IN  IF stable.ok THEN KernelPackage(Stock[stable.image]) ELSE Refused

\* The stable entry point reads the metadata and the package list of its image,
\* the 7.2 entry point the source index.
Newest == IF channel = "stable" THEN StableSource
                                ELSE NewestPackage(IndexPackages(world.archives), FALSE)

FindSource ==
  /\ Step("source", IF channel = "stable" THEN "archive" ELSE "manifest")
  /\ Newest.ok
  /\ Keep([job EXCEPT !.source = Newest.package])

CheckArchive ==
  /\ Step("archive", "config") /\ job.source \in world.archives
  /\ UNCHANGED <<job, ws, instant>>

\* Mutated: a config that is there is not fetched again.
FetchConfigOnce ==
  /\ Step("config", IF channel = "stable" THEN "manifest" ELSE "record")
  /\ Write([ws EXCEPT !.config = IF @ = None THEN job.source ELSE @])

FetchConfig ==
  /\ Step("config", IF channel = "stable" THEN "manifest" ELSE "record")
  /\ Write([ws EXCEPT !.config = job.source])

AfterLog == [manifest |-> IF channel = "stable" THEN "overrides" ELSE "config",
             overrides |-> "record",
             record |-> IF channel = "stable" THEN "base" ELSE "tag"]

WriteLog(name) ==
  /\ Step(name, AfterLog[name])
  /\ Write([ws EXCEPT !.logs[name] = job.source])

WriteBase ==
  /\ Step("base", "tag") /\ ws.pkgbuild # Torn
  /\ Write([ws EXCEPT !.pkgbuild.series = Series(job.source.core),
                      !.pkgbuild.tag = TagOf(job.source)])

\* The resolver starts from the files, not from the memory of the script before.
PolicyMatches(tag) ==
  IF channel = "stable" THEN StablePolicy(tag, Series(ws.logs.manifest.core))
                        ELSE IndexPolicy(tag, FALSE)

LockTag ==
  LET preferred == TagOf(ws.logs.manifest)
      locked == PreferredTag(preferred, PolicyMatches(preferred), world.mirror)
  IN  /\ Step("tag", "select")
      /\ locked.ok /\ ws.pkgbuild # Torn
      /\ Keep([Idle EXCEPT !.tag = locked.tag])

\* A resolver that finds no compatible file or an outdated port, a validator that
\* does not admit the record, an audit that selects another file, a patch that does
\* not apply or compile: the answer is the same every time.
Refuses(at, tag, files) ==
  \E f \in Faults :
    /\ f.at = at /\ f.tag = tag
    /\ \A c \in DOMAIN f.files : c \in DOMAIN files /\ files[c] = f.files[c]

One(component, commit) == [c \in {component} |-> commit]

\* Mutated: the tree of a repository is read again for every component.
SelectUncached ==
  LET n == Len(job.got) + 1
      r == RepositoryOf[Components[n]]
  IN  /\ Step("select", IF n = Len(Components) THEN "patches" ELSE "select")
      /\ Keep([job EXCEPT !.got = Append(@, world.heads[r])])

\* resolve_component for one component after the other; repository_tree keeps
\* the commit of a repository it has read.
NextComponent == Components[Len(job.got) + 1]

NextCommit ==
  LET r == RepositoryOf[NextComponent]
  IN  IF r \in DOMAIN job.trees THEN job.trees[r] ELSE world.heads[r]

Select ==
  LET n == Len(job.got) + 1
      r == RepositoryOf[Components[n]]
      commit == NextCommit
  IN  /\ Step("select", IF n = Len(Components) THEN "patches" ELSE "select")
      /\ ~Refuses("select", job.tag, One(Components[n], commit))
      /\ Keep([job EXCEPT !.got = Append(@, commit),
                          !.trees = [s \in DOMAIN @ \cup {r} |-> IF s = r THEN commit ELSE @[s]]])

\* main looks at the bytes before it writes them.
WritePatch ==
  LET n == job.written + 1
  IN  /\ Step("patches", IF n = Len(Components) THEN "sources" ELSE "patches")
      /\ ~Refuses("patches", job.tag, One(Components[n], job.got[n]))
      /\ ws' = [ws EXCEPT !.files[Components[n]] = job.got[n]]
      /\ job' = [job EXCEPT !.written = n]
      /\ UNCHANGED instant

WriteSources ==
  /\ Step("sources", "lock")
  /\ Write([ws EXCEPT !.pkgbuild.tag = job.tag, !.pkgbuild.sums = Skip])

WriteLock ==
  /\ Step("lock", "schema")
  /\ Write([ws EXCEPT !.lock =
       [schema |-> 3, tag |-> job.tag, version |-> Series(job.tag.core), commit |-> job.tag,
        files |-> [c \in ComponentSet |->
                     job.got[CHOOSE n \in DOMAIN Components : Components[n] = c]]]])

\* Mutated: the envelope is renamed, its version is not.
NormalizeSchemaOnly ==
  /\ Step("schema", "validate") /\ ~Less(ws.lock.tag.core, <<7, 2>>)
  /\ Write([ws EXCEPT !.lock.schema = 5])

NormalizeSchema ==
  /\ Step("schema", "validate") /\ ~Less(ws.lock.tag.core, <<7, 2>>)
  /\ Write([ws EXCEPT !.lock.schema = 5, !.lock.version = ws.lock.tag.core])

ValidLock ==
  /\ ws.lock.schema = 5
  /\ ValidKernel(ws.lock, PolicyMatches(ws.lock.tag), Series(ws.logs.manifest.core))
  /\ ~Refuses("validate", ws.lock.tag, ws.lock.files)

\* Validation runs the audit, and the workflow runs it once more.
Validate ==
  /\ Step("validate", "audit") /\ ValidLock
  /\ job' = [Idle EXCEPT !.todo = Repositories, !.pass = 1]
  /\ instant' = world.heads
  /\ UNCHANGED ws

Of(r) == {c \in ComponentSet : RepositoryOf[c] = r}

\* The audit selects the files of the lock, at its commits.
Current(r) ==
  /\ \A c \in Of(r) : ws.lock.files[c] = world.heads[r]
  /\ ~Refuses("audit", ws.lock.tag, [c \in Of(r) |-> ws.lock.files[c]])

\* Mutated: the audit does not compare commits.
AuditLenient(r) ==
  LET rest == job.todo \ {r}
  IN  /\ r \in job.todo
      /\ Step("audit", IF rest = {} /\ job.pass = 2 THEN "contracts" ELSE "audit")
      /\ Keep(IF rest = {} /\ job.pass = 1 THEN [job EXCEPT !.todo = Repositories, !.pass = 2]
                                           ELSE [job EXCEPT !.todo = rest])

Audit(r) ==
  LET rest == job.todo \ {r}
  IN  /\ r \in job.todo /\ Current(r)
      /\ Step("audit", IF rest = {} /\ job.pass = 2 THEN "contracts" ELSE "audit")
      /\ Keep(IF rest = {} /\ job.pass = 1 THEN [job EXCEPT !.todo = Repositories, !.pass = 2]
                                           ELSE [job EXCEPT !.todo = rest])

\* Mutated: the contracts of the 7.2 branch, as they were before.
InContractOf72 ==
  /\ ws.pkgbuild.series = <<7, 2>>
  /\ ws.lock.schema = 5 /\ Series(ws.lock.version) = <<7, 2>>

InContract ==
  LET series == IF channel = "stable" THEN Series(ws.logs.record.core) ELSE <<7, 2>>
  IN  /\ ws.pkgbuild.series = series
      /\ ws.lock.schema = 5 /\ Series(ws.lock.version) = series

CheckContracts == Step("contracts", "generate") /\ InContract /\ UNCHANGED <<job, ws, instant>>

\* makepkg -g reads the sources the PKGBUILD names.
Sources == Digests(ws.files, ws.config)

GenerateSums == Step("generate", "finalize") /\ Write([ws EXCEPT !.sums = Sources])

\* finalize-pkgbuild-checksums.py.
FinalizeSums == Step("finalize", "verify") /\ Write([ws EXCEPT !.pkgbuild.sums = ws.sums])

VerifySums ==
  /\ Step("verify", "build") /\ ws.pkgbuild.sums = Sources
  /\ UNCHANGED <<job, ws, instant>>

\* makepkg, and the notes that compare its tag with the lock's.
Compiled == [c \in ComponentSet \cup Drivers |->
               IF c \in Drivers THEN ws.pkgbuild.drivers[c] ELSE ws.files[c]]

Build ==
  /\ pc = "build" /\ pc' = "done"
  /\ ws.lock.tag = ws.pkgbuild.tag
  /\ ~Refuses("build", ws.pkgbuild.tag, Compiled)
  /\ built' = [inputs |-> ws, instant |-> instant]
  /\ UNCHANGED <<world, channel, job, ws, instant, failures>>

-----------------------------------------------------------------------------
(* Ends of a job.                                                          *)

ReadsPkgbuild == {"driverlock", "normalize", "base", "tag"}
WritesPkgbuild == {"driversources", "normalize", "base", "sources", "finalize"}

\* A step raises because of what it finds.
Refusal ==
  \/ pc \in ReadsPkgbuild /\ ws.pkgbuild = Torn
  \/ pc = "source" /\ ~Newest.ok
  \/ pc = "archive" /\ job.source \notin world.archives
  \/ pc = "tag" /\ LET tag == TagOf(ws.logs.manifest)
                   IN  ~PreferredTag(tag, PolicyMatches(tag), world.mirror).ok
  \/ pc = "select" /\ Refuses("select", job.tag, One(NextComponent, NextCommit))
  \/ pc = "patches" /\ LET n == job.written + 1
                       IN  Refuses("patches", job.tag, One(Components[n], job.got[n]))
  \/ pc = "schema" /\ Less(ws.lock.tag.core, <<7, 2>>)
  \/ pc = "validate" /\ ~ValidLock
  \/ pc = "audit" /\ \E r \in job.todo : ~Current(r)
  \/ pc = "contracts" /\ ~InContract
  \/ pc = "verify" /\ ws.pkgbuild.sums # Sources
  \/ pc = "build" /\ (ws.lock.tag # ws.pkgbuild.tag \/ Refuses("build", ws.pkgbuild.tag, Compiled))

Refuse ==
  /\ Refusal
  /\ pc' = "failed"
  /\ UNCHANGED <<world, channel, job, ws, instant, built, failures>>

\* A request fails for good, or the process is killed, which may tear the
\* PKGBUILD it is writing.
Fail(torn) ==
  /\ pc \notin {"failed", "done"} /\ failures < MaxFailures
  /\ torn => pc \in WritesPkgbuild
  /\ pc' = "failed" /\ failures' = failures + 1
  /\ ws' = IF torn THEN [ws EXCEPT !.pkgbuild = Torn] ELSE ws
  /\ UNCHANGED <<world, channel, job, instant, built>>

\* The next job; one that GitHub runs has a fresh checkout.
Rerun(fresh) ==
  /\ pc \in {"failed", "done"}
  /\ pc' = "drivers" /\ job' = Idle
  /\ ws' = IF fresh THEN Checkout ELSE ws
  /\ UNCHANGED <<world, channel, instant, built, failures>>

Job ==
  \/ \E d \in Drivers : ResolveDriver(d)
  \/ WriteDriverLock \/ WriteDriverSources \/ NormalizePkgbuild
  \/ FindSource \/ CheckArchive \/ FetchConfig
  \/ \E name \in {"manifest", "overrides", "record"} : WriteLog(name)
  \/ WriteBase \/ LockTag \/ Select \/ WritePatch \/ WriteSources \/ WriteLock \/ NormalizeSchema
  \/ Validate \/ \E r \in Repositories : Audit(r)
  \/ CheckContracts \/ GenerateSums \/ FinalizeSums \/ VerifySums \/ Build
  \/ Refuse

Servers ==
  \/ \E r \in Repositories \cup Drivers : Push(r)
  \/ \E i \in Images : ReleaseImage(i)
  \/ \E p \in Published : Archive(p) \/ Mirror(p)

Next == Job \/ Servers \/ \E torn \in BOOLEAN : Fail(torn) \/ \E fresh \in BOOLEAN : Rerun(fresh)

\* A job runs until it ends; daily-full-kernel-build.yml dispatches push.yml,
\* whatever local runs there are, and nothing dispatches build-kernel-7.2.yml; Valve
\* publishes the archive and the mirror tag of every image.
Fairness ==
  /\ WF_vars(Job)
  /\ SF_vars(channel = "stable" /\ Rerun(TRUE))
  /\ \A p \in Published : WF_vars(Archive(p)) /\ WF_vars(Mirror(p))

Spec == Init /\ [][Next]_vars /\ Fairness

-----------------------------------------------------------------------------
\* The files have their types, and a lock of schema 5 names an exact kernel.
TypeOK ==
  /\ channel \in {"stable", "index"}
  /\ ws.config \in Published \cup {None}
  /\ \A name \in DOMAIN ws.logs : ws.logs[name] \in Published \cup {None}
  /\ \A c \in ComponentSet : ws.files[c] \in 0..(1 + MaxPushes)
  /\ ws.lock # None => ws.lock.schema \in {3, 5} /\ (ws.lock.schema = 5 => Len(ws.lock.version) = 3)
  /\ failures \in 0..MaxFailures

\* Whatever earlier jobs left in the workspace, and whatever moved in between:
\* the kernel tag, the config, the package names, the patches, their checksums
\* and the drivers of a build belong together and are those its locks name.
BuiltAsLocked ==
  built # None =>
    LET b == built.inputs
    IN  /\ b.pkgbuild.tag = TagOf(b.config) /\ b.lock.tag = TagOf(b.config)
        /\ b.pkgbuild.series = Series(b.config.core)
        /\ b.files = b.lock.files
        /\ b.pkgbuild.sums = Digests(b.files, b.config)
        /\ b.pkgbuild.drivers = b.driverLock
        /\ b.logs.record = b.config

\* Components of one repository are locked at one commit, although they are
\* resolved in separate requests.
OneCommitPerRepository ==
  ws.lock # None =>
    \A c, d \in ComponentSet :
      RepositoryOf[c] = RepositoryOf[d] => ws.lock.files[c] = ws.lock.files[d]

\* The repositories are read one by one, twice; still there was one instant,
\* the beginning of the validation, when all patches of a build were the newest.
OneInstant ==
  built # None => \A c \in ComponentSet : built.inputs.files[c] = built.instant[RepositoryOf[c]]

\* Once Valve and the projects are quiet and requests no longer fail, the last
\* build of the stable channel is one of the newest kernel, patches and drivers,
\* whatever a killed job left behind; unless a program refuses just these.
Fresh ==
  /\ built # None /\ Newest.ok
  /\ built.inputs.lock.tag = TagOf(Newest.package)
  /\ \A c \in ComponentSet : built.inputs.files[c] = world.heads[RepositoryOf[c]]
  /\ \A d \in Drivers : built.inputs.driverLock[d] = world.heads[d]

HeadOf(c) == world.heads[IF c \in Drivers THEN c ELSE RepositoryOf[c]]

Rejected ==
  /\ Newest.ok
  /\ \E f \in Faults : /\ f.tag = TagOf(Newest.package)
                       /\ \A c \in DOMAIN f.files : f.files[c] = HeadOf(c)

EndsFresh == channel = "stable" => <>[](Fresh \/ Rejected)
=============================================================================
