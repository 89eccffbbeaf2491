-------------------------- MODULE BuildInputsProofs --------------------------
(***************************************************************************)
(* What is built is what the locks name, the patches of one repository are *)
(* of one commit, and all patches were the newest at one instant: for any  *)
(* components, repositories, drivers, images and history of upstream, and  *)
(* wherever jobs before this one failed or were killed.  Every job ends.   *)
(***************************************************************************)
EXTENDS BuildInputs, PatchPolicyProofs

-----------------------------------------------------------------------------
(* The steps of a job, by what they have behind them.                      *)

Sealed       == {"contracts", "generate", "finalize", "verify", "build"}
InAudit      == {"audit"} \cup Sealed
LockWritten  == {"schema", "validate"} \cup InAudit
Resolving    == {"select", "patches", "sources", "lock"}
Located      == {"base", "tag"} \cup Resolving \cup LockWritten
Locating     == {"source", "archive", "config", "manifest", "overrides", "record"}
DriversRead  == {"driversources", "normalize"} \cup Locating \cup Located

-----------------------------------------------------------------------------
(* The inductive invariant.                                                *)

PkgbuildFields == {"series", "tag", "sums", "drivers"}

\* Every file and every variable of a script has its fields.
Forms ==
  /\ DOMAIN ws = {"pkgbuild", "config", "logs", "driverLock", "files", "lock", "sums"}
  /\ DOMAIN ws.logs = {"manifest", "overrides", "record"}
  /\ DOMAIN job = {"source", "drivers", "tag", "trees", "got", "written", "todo", "pass"}
  /\ DOMAIN world = {"metadata", "archives", "mirror", "heads", "pushes"}
  /\ world.heads \in [Repositories \cup Drivers -> Nat]
  /\ ws.files \in [ComponentSet -> Nat]
  /\ channel \in {"stable", "index"}

\* From the first step that reads the PKGBUILD on it is whole, and its drivers
\* are those of the driver lock.
DriversHeld ==
  /\ ws.pkgbuild = Torn \/ DOMAIN ws.pkgbuild = PkgbuildFields
  /\ pc \in DriversRead => DOMAIN ws.pkgbuild = PkgbuildFields
  /\ pc = "driversources" => ws.driverLock = job.drivers
  /\ pc \in DriversRead \ {"driversources"} => ws.pkgbuild.drivers = ws.driverLock

\* The config and the logs are taken from the package that was found.
SourceHeld ==
  /\ pc \in {"archive", "overrides", "base"} => channel = "stable"
  /\ pc = "manifest" /\ channel = "stable" => ws.config = job.source
  /\ pc = "config" /\ channel = "index" => ws.logs.manifest = job.source
  /\ pc \in {"overrides", "record"} => ws.config = job.source /\ ws.logs.manifest = job.source
  /\ pc \in Located => ws.logs.manifest = ws.config /\ ws.logs.record = ws.config

\* The tag of that package is locked, and is the tag of the PKGBUILD.
TagHeld ==
  /\ pc \in Resolving => job.tag = TagOf(ws.config)
  /\ pc \in {"lock"} \cup LockWritten => ws.pkgbuild.tag = TagOf(ws.config)
  /\ pc \in LockWritten =>
       /\ DOMAIN ws.lock = {"schema", "tag", "version", "commit", "files"}
       /\ ws.lock.tag = TagOf(ws.config)
  /\ pc \in {"validate"} \cup InAudit => ws.lock.version = ws.lock.tag.core

\* What a resolver knows of a repository is what the first request answered.
TreesKept ==
  pc \in Resolving =>
    /\ \A r \in DOMAIN job.trees :
         r \in Repositories /\ job.trees[r] \in Nat /\ job.trees[r] <= world.heads[r]
    /\ job.got \in Seq(Nat)
    /\ IF pc = "select" THEN Len(job.got) < Len(Components) ELSE Len(job.got) = Len(Components)
    /\ \A n \in 1..Len(job.got) :
         /\ RepositoryOf[Components[n]] \in DOMAIN job.trees
         /\ job.got[n] = job.trees[RepositoryOf[Components[n]]]
    /\ job.written \in Nat

\* The patch files are those of these commits.
FilesHeld ==
  /\ pc = "select" => job.written = 0
  /\ pc = "patches" =>
       /\ job.written < Len(Components)
       /\ \A n \in 1..job.written :
            ws.files[Components[n]] = job.trees[RepositoryOf[Components[n]]]
  /\ pc \in {"sources", "lock"} =>
       \A c \in ComponentSet : ws.files[c] = job.trees[RepositoryOf[c]]
  /\ pc \in LockWritten =>
       /\ ws.files = ws.lock.files
       /\ \A c \in ComponentSet : ws.lock.files[c] <= world.heads[RepositoryOf[c]]

\* The lock has one commit for each repository.
SameCommit ==
  \A c, d \in ComponentSet :
    RepositoryOf[c] = RepositoryOf[d] => ws.lock.files[c] = ws.lock.files[d]

\* The lock has the file that was the newest at the instant.
NewestThen(c) == ws.lock.files[c] = instant[RepositoryOf[c]]

\* No head was behind the lock when the validation began, and none of those
\* the audit has read was ahead of it.
InstantHeld ==
  /\ pc \in InAudit =>
       /\ instant \in [Repositories \cup Drivers -> Nat]
       /\ \A r \in Repositories : instant[r] <= world.heads[r]
       /\ \A c \in ComponentSet : ws.lock.files[c] <= instant[RepositoryOf[c]]
  /\ pc = "audit" =>
       /\ job.pass \in {1, 2}
       /\ job.pass = 1 => \A c \in ComponentSet : RepositoryOf[c] \notin job.todo => NewestThen(c)
  /\ pc \in Sealed \/ (pc = "audit" /\ job.pass = 2) => \A c \in ComponentSet : NewestThen(c)

\* The package names are those of the series, and the sums those of the sources.
SumsHeld ==
  /\ pc \in Sealed \ {"contracts"} => ws.pkgbuild.series = Series(ws.config.core)
  /\ pc = "build" => ws.pkgbuild.sums = Sources

IInv ==
  /\ Forms /\ DriversHeld /\ SourceHeld /\ TagHeld /\ TreesKept /\ FilesHeld /\ InstantHeld
  /\ SumsHeld /\ (pc = "schema" => SameCommit)
  /\ OneCommitPerRepository /\ BuiltAsLocked /\ OneInstant

-----------------------------------------------------------------------------
(* Components, repositories and their heads.                               *)

LEMMA ComponentsKnown ==
  /\ Len(Components) \in Nat \ {0} /\ DOMAIN Components = 1..Len(Components)
  /\ \A n \in 1..Len(Components) : Components[n] \in ComponentSet
  /\ \A c \in ComponentSet : RepositoryOf[c] \in Repositories
  /\ \A c \in ComponentSet : \E n \in 1..Len(Components) : Components[n] = c
BY BuildInputsAssumption DEF ComponentSet, Repositories

\* The servers and a stutter touch nothing of the job, and heads only move on.
LEMMA Outside ==
  ASSUME Servers \/ UNCHANGED vars
  PROVE  UNCHANGED <<channel, pc, job, ws, instant, built, failures>>
BY DEF Servers, Push, ReleaseImage, Archive, Mirror, World, vars

LEMMA Inside ==
  ASSUME Job \/ (\E torn \in BOOLEAN : Fail(torn)) \/ (\E fresh \in BOOLEAN : Rerun(fresh))
  PROVE  UNCHANGED <<world, channel>>
BY DEF Job, ResolveDriver, WriteDriverLock, WriteDriverSources, NormalizePkgbuild, FindSource,
       CheckArchive, FetchConfig, WriteLog, WriteBase, LockTag, Select, WritePatch, WriteSources,
       WriteLock, NormalizeSchema, Validate, Audit, CheckContracts, GenerateSums, FinalizeSums,
       VerifySums, Build, Refuse, Step, Fail, Rerun

LEMMA HeadsGrow ==
  ASSUME Forms, [Next]_vars
  PROVE  /\ world'.heads \in [Repositories \cup Drivers -> Nat]
         /\ DOMAIN world' = DOMAIN world
         /\ \A r \in Repositories \cup Drivers : world.heads[r] <= world'.heads[r]
<1>1. CASE \E r \in Repositories \cup Drivers : Push(r)
  BY <1>1 DEF Push, World, Forms
<1>2. CASE \E i \in Images : ReleaseImage(i)
  BY <1>2 DEF ReleaseImage, World, Forms
<1>3. CASE \E p \in Published : Archive(p) \/ Mirror(p)
  BY <1>3 DEF Archive, Mirror, World, Forms
<1>4. CASE UNCHANGED world
  BY <1>4 DEF Forms
<1> QED
  BY <1>1, <1>2, <1>3, <1>4, Inside DEF Next, Servers, vars

-----------------------------------------------------------------------------
(* Each part of the invariant is kept.                                     *)

LEMMA FormsStep ==
  ASSUME IInv, [Next]_vars
  PROVE  Forms'
<1>1. CASE (\E d \in Drivers : ResolveDriver(d)) \/ WriteDriverLock \/ WriteDriverSources
           \/ NormalizePkgbuild
  BY <1>1 DEF ResolveDriver, WriteDriverLock, WriteDriverSources, NormalizePkgbuild, Step, Write,
     Keep, IInv, Forms
<1>2. CASE FindSource \/ CheckArchive \/ FetchConfig \/ WriteBase
           \/ (\E name \in {"manifest", "overrides", "record"} : WriteLog(name))
  BY <1>2 DEF FindSource, CheckArchive, FetchConfig, WriteBase, WriteLog, Step, Write, Keep,
     IInv, Forms
<1>3. CASE LockTag \/ Select
  BY <1>3 DEF LockTag, Select, Step, Keep, IInv, Forms, Idle
<1>4. CASE WritePatch
  <2>1. job.written + 1 \in 1..Len(job.got) /\ job.got \in Seq(Nat)
    BY <1>4, ComponentsKnown DEF WritePatch, Step, IInv, TreesKept, FilesHeld, Resolving
  <2>2. job.got[job.written + 1] \in Nat
    BY <2>1
  <2> QED
    BY <1>4, <2>2 DEF WritePatch, Step, IInv, Forms
<1>5. CASE WriteSources \/ WriteLock \/ NormalizeSchema
  BY <1>5 DEF WriteSources, WriteLock, NormalizeSchema, Step, Write, IInv, Forms
<1>6. CASE Validate \/ (\E r \in Repositories : Audit(r))
  BY <1>6 DEF Validate, Audit, Step, Keep, IInv, Forms, Idle
<1>7. CASE CheckContracts \/ GenerateSums \/ FinalizeSums \/ VerifySums \/ Build
  BY <1>7 DEF CheckContracts, GenerateSums, FinalizeSums, VerifySums, Build, Step, Write,
     IInv, Forms
<1>8. CASE Refuse \/ \E torn \in BOOLEAN : Fail(torn)
  BY <1>8 DEF Refuse, Fail, IInv, Forms
<1>9. CASE \E fresh \in BOOLEAN : Rerun(fresh)
  BY <1>9 DEF Rerun, Checkout, Idle, NoPatches, IInv, Forms
<1>10. CASE Servers \/ UNCHANGED vars
  BY <1>10, HeadsGrow, Outside DEF IInv, Forms
<1> QED
  BY <1>1, <1>2, <1>3, <1>4, <1>5, <1>6, <1>7, <1>8, <1>9, <1>10 DEF Next, Job

LEMMA DriversStep ==
  ASSUME IInv, [Next]_vars
  PROVE  DriversHeld'
<1> USE DEF PkgbuildFields, DriversRead, Locating, Located, Resolving, LockWritten, InAudit, Sealed
<1>1. CASE \E d \in Drivers : ResolveDriver(d)
  BY <1>1 DEF ResolveDriver, Step, Keep, IInv, DriversHeld
<1>2. CASE WriteDriverLock \/ WriteDriverSources
  BY <1>2 DEF WriteDriverLock, WriteDriverSources, Step, Write, IInv, Forms, DriversHeld
<1>3. CASE NormalizePkgbuild
  BY <1>3 DEF NormalizePkgbuild, Step, Write, IInv, Forms, DriversHeld
<1>4. CASE WriteBase
  BY <1>4 DEF WriteBase, Step, Write, IInv, Forms, DriversHeld
<1>5. CASE FindSource \/ CheckArchive \/ FetchConfig
  BY <1>5 DEF FindSource, CheckArchive, FetchConfig, Step, Write, Keep, IInv, Forms, DriversHeld
<1>6. CASE \E name \in {"manifest", "overrides", "record"} : WriteLog(name)
  BY <1>6 DEF WriteLog, AfterLog, Step, Write, IInv, Forms, DriversHeld
<1>7. CASE LockTag \/ Select \/ WritePatch
  BY <1>7 DEF LockTag, Select, WritePatch, Step, Keep, IInv, Forms, DriversHeld
<1>8. CASE WriteSources
  BY <1>8 DEF WriteSources, Step, Write, IInv, Forms, DriversHeld
<1>9. CASE WriteLock \/ NormalizeSchema
  BY <1>9 DEF WriteLock, NormalizeSchema, Step, Write, IInv, Forms, DriversHeld
<1>10. CASE Validate \/ (\E r \in Repositories : Audit(r))
  BY <1>10 DEF Validate, Audit, Step, Keep, IInv, Forms, DriversHeld
<1>11. CASE CheckContracts \/ GenerateSums \/ FinalizeSums \/ VerifySums \/ Build
  BY <1>11 DEF CheckContracts, GenerateSums, FinalizeSums, VerifySums, Build, Step, Write, IInv,
     Forms, DriversHeld
<1>12. CASE Refuse \/ (\E torn \in BOOLEAN : Fail(torn)) \/ (\E fresh \in BOOLEAN : Rerun(fresh))
  BY <1>12 DEF Refuse, Fail, Rerun, Checkout, IInv, Forms, DriversHeld
<1>13. CASE Servers \/ UNCHANGED vars
  BY <1>13, Outside DEF IInv, DriversHeld
<1> QED
  BY <1>1, <1>2, <1>3, <1>4, <1>5, <1>6, <1>7, <1>8, <1>9, <1>10, <1>11, <1>12,
     <1>13 DEF Next, Job

LEMMA SourceStep ==
  ASSUME IInv, [Next]_vars
  PROVE  SourceHeld'
<1> USE DEF DriversRead, Locating, Located, Resolving, LockWritten, InAudit, Sealed
<1>1. CASE (\E d \in Drivers : ResolveDriver(d)) \/ WriteDriverLock \/ WriteDriverSources
           \/ NormalizePkgbuild
  BY <1>1 DEF ResolveDriver, WriteDriverLock, WriteDriverSources, NormalizePkgbuild, Step,
     Write, Keep, IInv, Forms, SourceHeld
<1>2. CASE FindSource \/ CheckArchive \/ FetchConfig \/ WriteBase
  BY <1>2 DEF FindSource, CheckArchive, FetchConfig, WriteBase, Step, Write, Keep, IInv, Forms,
     SourceHeld
<1>3. CASE \E name \in {"manifest", "overrides", "record"} : WriteLog(name)
  BY <1>3 DEF WriteLog, AfterLog, Step, Write, IInv, Forms, SourceHeld
<1>4. CASE LockTag \/ Select \/ WritePatch
  BY <1>4 DEF LockTag, Step, Keep, Idle, Select, WritePatch, IInv, Forms, SourceHeld
<1>5. CASE WriteSources \/ WriteLock \/ NormalizeSchema
  BY <1>5 DEF WriteSources, Step, Write, WriteLock, NormalizeSchema, IInv, Forms, SourceHeld
<1>6. CASE Validate \/ (\E r \in Repositories : Audit(r))
  BY <1>6 DEF Validate, Step, Idle, Audit, Keep, IInv, Forms, SourceHeld
<1>7. CASE CheckContracts \/ GenerateSums \/ FinalizeSums \/ VerifySums \/ Build
  BY <1>7 DEF CheckContracts, GenerateSums, FinalizeSums, VerifySums, Build, Step, Write, IInv,
     Forms, SourceHeld
<1>8. CASE Refuse \/ (\E torn \in BOOLEAN : Fail(torn)) \/ (\E fresh \in BOOLEAN : Rerun(fresh))
  BY <1>8 DEF Refuse, Fail, Rerun, Checkout, IInv, Forms, SourceHeld
<1>9. CASE Servers \/ UNCHANGED vars
  BY <1>9, Outside DEF vars, IInv, Forms, SourceHeld
<1> QED
  BY <1>1, <1>2, <1>3, <1>4, <1>5, <1>6, <1>7, <1>8, <1>9 DEF Next, Job

LEMMA TagStep ==
  ASSUME IInv, [Next]_vars
  PROVE  TagHeld'
<1> USE DEF DriversRead, Locating, Located, Resolving, LockWritten, InAudit, Sealed, PkgbuildFields
<1>1. CASE (\E d \in Drivers : ResolveDriver(d)) \/ WriteDriverLock \/ WriteDriverSources
           \/ NormalizePkgbuild
  BY <1>1 DEF ResolveDriver, WriteDriverLock, WriteDriverSources, NormalizePkgbuild, Step,
     Write, Keep, IInv, Forms, SourceHeld, TagHeld, DriversHeld, PreferredTag, Refused
<1>2. CASE FindSource \/ CheckArchive \/ FetchConfig \/ WriteBase
  BY <1>2 DEF FindSource, CheckArchive, FetchConfig, WriteBase, Step, Write, Keep, IInv, Forms,
     SourceHeld, TagHeld, DriversHeld, PreferredTag, Refused
<1>3. CASE \E name \in {"manifest", "overrides", "record"} : WriteLog(name)
  BY <1>3 DEF WriteLog, AfterLog, Step, Write, IInv, Forms, SourceHeld, TagHeld, DriversHeld,
     PreferredTag, Refused
<1>4. CASE LockTag
  BY <1>4 DEF LockTag, Step, Keep, Idle, IInv, Forms, SourceHeld, TagHeld, DriversHeld,
     PreferredTag, Refused
<1>5. CASE Select \/ WritePatch
  BY <1>5 DEF Select, Step, Keep, WritePatch, IInv, Forms, SourceHeld, TagHeld, DriversHeld,
     PreferredTag, Refused
<1>6. CASE WriteSources
  BY <1>6 DEF WriteSources, Step, Write, IInv, Forms, SourceHeld, TagHeld, DriversHeld,
     PreferredTag, Refused
<1>7. CASE WriteLock
  BY <1>7 DEF WriteLock, Step, Write, IInv, Forms, SourceHeld, TagHeld, DriversHeld,
     PreferredTag, Refused
<1>8. CASE NormalizeSchema
  BY <1>8 DEF NormalizeSchema, Step, Write, IInv, Forms, SourceHeld, TagHeld, DriversHeld,
     PreferredTag, Refused
<1>9. CASE Validate \/ (\E r \in Repositories : Audit(r))
  BY <1>9 DEF Validate, Step, Idle, Audit, Keep, IInv, Forms, SourceHeld, TagHeld, DriversHeld,
     PreferredTag, Refused
<1>10. CASE CheckContracts \/ GenerateSums \/ FinalizeSums \/ VerifySums \/ Build
  BY <1>10 DEF CheckContracts, GenerateSums, FinalizeSums, VerifySums, Build, Step, Write, IInv,
     Forms, SourceHeld, TagHeld, DriversHeld, PreferredTag, Refused
<1>11. CASE Refuse \/ (\E torn \in BOOLEAN : Fail(torn)) \/ (\E fresh \in BOOLEAN : Rerun(fresh))
  BY <1>11 DEF Refuse, Fail, Rerun, Checkout, IInv, Forms, SourceHeld, TagHeld, DriversHeld,
     PreferredTag, Refused
<1>12. CASE Servers \/ UNCHANGED vars
  BY <1>12, Outside DEF vars, IInv, Forms, SourceHeld, TagHeld, DriversHeld, PreferredTag,
     Refused
<1> QED
  BY <1>1, <1>2, <1>3, <1>4, <1>5, <1>6, <1>7, <1>8, <1>9, <1>10, <1>11, <1>12 DEF Next, Job

LEMMA SumsStep ==
  ASSUME IInv, [Next]_vars
  PROVE  SumsHeld'
<1> USE DEF DriversRead, Locating, Located, Resolving, LockWritten, InAudit, Sealed, PkgbuildFields
<1>1. CASE (\E d \in Drivers : ResolveDriver(d)) \/ WriteDriverLock \/ WriteDriverSources
           \/ NormalizePkgbuild
  BY <1>1 DEF ResolveDriver, WriteDriverLock, WriteDriverSources, NormalizePkgbuild, Step,
     Write, Keep, IInv, Forms, SumsHeld, SourceHeld, TagHeld, DriversHeld, InContract, TagOf,
     Sources, Digests
<1>2. CASE FindSource \/ CheckArchive \/ FetchConfig \/ WriteBase
  BY <1>2 DEF FindSource, CheckArchive, FetchConfig, WriteBase, Step, Write, Keep, IInv, Forms,
     SumsHeld, SourceHeld, TagHeld, DriversHeld, InContract, TagOf, Sources, Digests
<1>3. CASE \E name \in {"manifest", "overrides", "record"} : WriteLog(name)
  BY <1>3 DEF WriteLog, AfterLog, Step, Write, IInv, Forms, SumsHeld, SourceHeld, TagHeld,
     DriversHeld, InContract, TagOf, Sources, Digests
<1>4. CASE LockTag \/ Select \/ WritePatch
  BY <1>4 DEF LockTag, Step, Keep, Idle, Select, WritePatch, IInv, Forms, SumsHeld, SourceHeld,
     TagHeld, DriversHeld, InContract, TagOf, Sources, Digests
<1>5. CASE WriteSources \/ WriteLock \/ NormalizeSchema
  BY <1>5 DEF WriteSources, Step, Write, WriteLock, NormalizeSchema, IInv, Forms, SumsHeld,
     SourceHeld, TagHeld, DriversHeld, InContract, TagOf, Sources, Digests
<1>6. CASE Validate \/ (\E r \in Repositories : Audit(r))
  BY <1>6 DEF Validate, Step, Idle, Audit, Keep, IInv, Forms, SumsHeld, SourceHeld, TagHeld,
     DriversHeld, InContract, TagOf, Sources, Digests
<1>7. CASE CheckContracts
  BY <1>7 DEF CheckContracts, Step, IInv, Forms, SumsHeld, SourceHeld, TagHeld, DriversHeld,
     InContract, TagOf, Sources, Digests
<1>8. CASE GenerateSums \/ FinalizeSums \/ VerifySums \/ Build
  BY <1>8 DEF GenerateSums, FinalizeSums, VerifySums, Build, Step, Write, IInv, Forms, SumsHeld,
     SourceHeld, TagHeld, DriversHeld, InContract, TagOf, Sources, Digests
<1>9. CASE Refuse \/ (\E torn \in BOOLEAN : Fail(torn)) \/ (\E fresh \in BOOLEAN : Rerun(fresh))
  BY <1>9 DEF Refuse, Fail, Rerun, Checkout, IInv, Forms, SumsHeld, SourceHeld, TagHeld,
     DriversHeld, InContract, TagOf, Sources, Digests
<1>10. CASE Servers \/ UNCHANGED vars
  BY <1>10, Outside DEF vars, IInv, Forms, SumsHeld, SourceHeld, TagHeld, DriversHeld,
     InContract, TagOf, Sources, Digests
<1> QED
  BY <1>1, <1>2, <1>3, <1>4, <1>5, <1>6, <1>7, <1>8, <1>9, <1>10 DEF Next, Job

\* The steps that end within the resolver.
LEMMA ResolverSteps ==
  ASSUME [Next]_vars, pc' \in Resolving
  PROVE  LockTag \/ Select \/ WritePatch \/ WriteSources \/ Servers \/ UNCHANGED vars
<1> USE DEF Resolving, Step
<1>1. ~CheckArchive /\ ~FetchConfig /\ ~FindSource /\ ~WriteBase
  BY DEF CheckArchive, FetchConfig, FindSource, WriteBase
<1>2. ~WriteDriverLock /\ ~WriteDriverSources /\ ~NormalizePkgbuild
      /\ ~(\E d \in Drivers : ResolveDriver(d))
  BY DEF WriteDriverLock, WriteDriverSources, NormalizePkgbuild, ResolveDriver
<1>3. ~(\E name \in {"manifest", "overrides", "record"} : WriteLog(name))
  BY DEF WriteLog, AfterLog
<1>4. ~WriteLock /\ ~NormalizeSchema /\ ~Validate /\ ~(\E r \in Repositories : Audit(r))
  BY DEF WriteLock, NormalizeSchema, Validate, Audit
<1>5. ~CheckContracts /\ ~GenerateSums /\ ~FinalizeSums /\ ~VerifySums /\ ~Build /\ ~Refuse
  BY DEF CheckContracts, GenerateSums, FinalizeSums, VerifySums, Build, Refuse
<1>6. ~(\E torn \in BOOLEAN : Fail(torn)) /\ ~(\E fresh \in BOOLEAN : Rerun(fresh))
  BY DEF Fail, Rerun
<1> QED
  BY <1>1, <1>2, <1>3, <1>4, <1>5, <1>6 DEF Next, Job

\* The steps that end with a lock of this job.
LEMMA LockSteps ==
  ASSUME [Next]_vars, pc' \in LockWritten
  PROVE  \/ WriteLock \/ NormalizeSchema \/ Validate \/ (\E r \in Repositories : Audit(r))
         \/ CheckContracts \/ GenerateSums \/ FinalizeSums \/ VerifySums
         \/ Servers \/ UNCHANGED vars
<1> USE DEF LockWritten, InAudit, Sealed, Step
<1>1. ~CheckArchive /\ ~FetchConfig /\ ~FindSource /\ ~WriteBase
  BY DEF CheckArchive, FetchConfig, FindSource, WriteBase
<1>2. ~WriteDriverLock /\ ~WriteDriverSources /\ ~NormalizePkgbuild
      /\ ~(\E d \in Drivers : ResolveDriver(d))
  BY DEF WriteDriverLock, WriteDriverSources, NormalizePkgbuild, ResolveDriver
<1>3. ~(\E name \in {"manifest", "overrides", "record"} : WriteLog(name))
  BY DEF WriteLog, AfterLog
<1>4. ~LockTag /\ ~Select /\ ~WritePatch /\ ~WriteSources
  BY DEF LockTag, Select, WritePatch, WriteSources
<1>5. ~Build /\ ~Refuse
  BY DEF Build, Refuse
<1>6. ~(\E torn \in BOOLEAN : Fail(torn)) /\ ~(\E fresh \in BOOLEAN : Rerun(fresh))
  BY DEF Fail, Rerun
<1> QED
  BY <1>1, <1>2, <1>3, <1>4, <1>5, <1>6 DEF Next, Job

LEMMA TreesStep ==
  ASSUME IInv, [Next]_vars
  PROVE  TreesKept'
<1> USE DEF Resolving
<1>1. CASE LockTag
  <2>1. pc' = "select" /\ job'.trees = <<>> /\ job'.got = <<>> /\ job'.written = 0
    BY <1>1 DEF LockTag, Step, Keep, Idle
  <2>2. DOMAIN job'.trees = {} /\ job'.got \in Seq(Nat) /\ Len(job'.got) = 0
    BY <2>1
  <2> QED
    BY <2>1, <2>2, ComponentsKnown DEF TreesKept
<1>2. CASE Select
  <2> DEFINE n == Len(job.got) + 1
             r == RepositoryOf[Components[n]]
             commit == IF r \in DOMAIN job.trees THEN job.trees[r] ELSE world.heads[r]
  <2>1. /\ pc = "select" /\ pc' = IF n = Len(Components) THEN "patches" ELSE "select"
        /\ world' = world /\ job'.written = job.written
        /\ job'.got = Append(job.got, commit)
        /\ job'.trees = [s \in DOMAIN job.trees \cup {r} |-> IF s = r THEN commit
                                                             ELSE job.trees[s]]
    BY <1>2 DEF Select, NextComponent, NextCommit, Step, Keep, IInv, Forms
  <2>2. /\ job.got \in Seq(Nat) /\ Len(job.got) < Len(Components) /\ job.written \in Nat
        /\ \A s \in DOMAIN job.trees :
             s \in Repositories /\ job.trees[s] \in Nat /\ job.trees[s] <= world.heads[s]
        /\ \A m \in 1..Len(job.got) :
             /\ RepositoryOf[Components[m]] \in DOMAIN job.trees
             /\ job.got[m] = job.trees[RepositoryOf[Components[m]]]
    BY <2>1 DEF IInv, TreesKept
  <2>3. n \in 1..Len(Components) /\ r \in Repositories
    BY <2>2, ComponentsKnown
  <2>4. commit \in Nat /\ commit <= world.heads[r]
    BY <2>2, <2>3 DEF IInv, Forms
  <2> HIDE DEF commit, r
  <2>5. job'.got \in Seq(Nat) /\ Len(job'.got) = n /\ job'.got[n] = commit
    BY <2>1, <2>2, <2>4
  <2>6. \A m \in 1..Len(job.got) : job'.got[m] = job.got[m]
    BY <2>1, <2>2, <2>4
  <2>7. \A s \in DOMAIN job'.trees :
          s \in Repositories /\ job'.trees[s] \in Nat /\ job'.trees[s] <= world'.heads[s]
    BY <2>1, <2>2, <2>3, <2>4
  <2>8. \A s \in DOMAIN job.trees : s \in DOMAIN job'.trees /\ job'.trees[s] = job.trees[s]
    BY <2>1 DEF commit
  <2>9. r \in DOMAIN job'.trees /\ job'.trees[r] = commit
    BY <2>1
  <2>10. \A m \in 1..n :
           /\ RepositoryOf[Components[m]] \in DOMAIN job'.trees
           /\ job'.got[m] = job'.trees[RepositoryOf[Components[m]]]
    <3> SUFFICES ASSUME NEW m \in 1..n
                 PROVE  /\ RepositoryOf[Components[m]] \in DOMAIN job'.trees
                        /\ job'.got[m] = job'.trees[RepositoryOf[Components[m]]]
      OBVIOUS
    <3>1. CASE m = n
      BY <3>1, <2>5, <2>9 DEF r
    <3>2. CASE m \in 1..Len(job.got)
      BY <3>2, <2>2, <2>6, <2>8
    <3> QED
      BY <3>1, <3>2, <2>2
  <2>11. IF pc' = "select" THEN n < Len(Components) ELSE n = Len(Components)
    <3>1. Len(job.got) \in Nat /\ Len(Components) \in Nat /\ Len(job.got) < Len(Components)
      BY <2>2, ComponentsKnown
    <3> QED
      BY <2>1, <3>1
  <2> QED
    BY <2>1, <2>2, <2>5, <2>7, <2>10, <2>11 DEF TreesKept
<1>3. CASE WritePatch
  <2>1. /\ pc = "patches" /\ pc' # "select" /\ world' = world
        /\ job'.trees = job.trees /\ job'.got = job.got /\ job'.written = job.written + 1
    BY <1>3 DEF WritePatch, Step, IInv, Forms
  <2> QED
    BY <2>1 DEF IInv, TreesKept
<1>4. CASE WriteSources
  BY <1>4 DEF WriteSources, Step, Write, IInv, TreesKept
<1>5. CASE Servers \/ UNCHANGED vars
  <2>1. ASSUME NEW r \in Repositories, NEW k \in Nat, k <= world.heads[r]
        PROVE  k <= world'.heads[r]
    BY <2>1, HeadsGrow DEF IInv, Forms
  <2> QED
    BY <1>5, <2>1, Outside DEF IInv, TreesKept
<1>6. CASE pc' \notin Resolving
  BY <1>6 DEF TreesKept
<1> QED
  BY <1>1, <1>2, <1>3, <1>4, <1>5, <1>6, ResolverSteps

\* What the lock is written of.
LEMMA LockFiles ==
  ASSUME IInv, WriteLock
  PROVE  \A c \in ComponentSet : ws'.lock.files[c] = job.trees[RepositoryOf[c]]
<1> SUFFICES ASSUME NEW c \in ComponentSet
             PROVE  ws'.lock.files[c] = job.trees[RepositoryOf[c]]
  OBVIOUS
<1> DEFINE n == CHOOSE m \in DOMAIN Components : Components[m] = c
<1>1. ws'.lock.files[c] = job.got[n]
  BY DEF WriteLock, Write, IInv, Forms
<1>2. n \in 1..Len(Components) /\ Components[n] = c
  BY ComponentsKnown
<1> HIDE DEF n
<1>3. pc = "lock" /\ Len(job.got) = Len(Components)
  BY DEF WriteLock, Step, IInv, TreesKept, Resolving
<1>4. job.got[n] = job.trees[RepositoryOf[Components[n]]]
  BY <1>2, <1>3 DEF IInv, TreesKept, Resolving
<1> QED
  BY <1>1, <1>2, <1>4

LEMMA FilesStep ==
  ASSUME IInv, [Next]_vars
  PROVE  FilesHeld'
<1> USE DEF LockWritten, InAudit, Sealed
<1>1. CASE LockTag
  BY <1>1 DEF LockTag, Step, Keep, Idle, FilesHeld
<1>2. CASE Select
  <2>1. pc = "select" /\ pc' \in {"select", "patches"} /\ job'.written = 0
    BY <1>2 DEF Select, Step, Keep, IInv, Forms, FilesHeld
  <2> QED
    BY <2>1, ComponentsKnown DEF FilesHeld
<1>3. CASE WritePatch
  <2> DEFINE n == job.written + 1
  <2>1. /\ pc = "patches" /\ pc' = IF n = Len(Components) THEN "sources" ELSE "patches"
        /\ job'.written = n /\ job'.trees = job.trees
        /\ ws'.files = [ws.files EXCEPT ![Components[n]] = job.got[n]]
    BY <1>3 DEF WritePatch, Step, IInv, Forms
  <2>2. /\ job.written \in Nat /\ job.written < Len(Components) /\ Len(job.got) = Len(Components)
        /\ \A m \in 1..job.written :
             ws.files[Components[m]] = job.trees[RepositoryOf[Components[m]]]
    BY <2>1 DEF IInv, TreesKept, FilesHeld, Resolving
  <2>3. n \in 1..Len(Components)
    BY <2>2, ComponentsKnown
  <2>4. job.got[n] = job.trees[RepositoryOf[Components[n]]]
    BY <2>1, <2>2, <2>3 DEF IInv, TreesKept, Resolving
  <2>5. \A m \in 1..n : ws'.files[Components[m]] = job'.trees[RepositoryOf[Components[m]]]
    <3> SUFFICES ASSUME NEW m \in 1..n
                 PROVE  ws'.files[Components[m]] = job'.trees[RepositoryOf[Components[m]]]
      OBVIOUS
    <3>1. m \in 1..Len(Components) /\ Components[m] \in DOMAIN ws.files
      BY <2>2, <2>3, ComponentsKnown DEF IInv, Forms
    <3>2. CASE Components[m] = Components[n]
      BY <3>1, <3>2, <2>1, <2>4
    <3>3. CASE Components[m] # Components[n]
      <4>1. m \in 1..job.written
        BY <3>3, <2>2
      <4> QED
        BY <3>1, <3>3, <4>1, <2>1, <2>2
    <3> QED
      BY <3>2, <3>3
  <2>6. CASE n = Len(Components)
    <3>1. \A c \in ComponentSet : ws'.files[c] = job'.trees[RepositoryOf[c]]
      BY <2>5, <2>6, ComponentsKnown
    <3> QED
      BY <3>1, <2>1, <2>6 DEF FilesHeld
  <2>7. CASE n # Len(Components)
    <3>1. job'.written < Len(Components)
      BY <2>1, <2>2, <2>3, <2>7, ComponentsKnown
    <3> QED
      BY <3>1, <2>1, <2>5, <2>7 DEF FilesHeld
  <2> QED
    BY <2>6, <2>7
<1>4. CASE WriteSources
  BY <1>4 DEF WriteSources, Step, Write, IInv, Forms, FilesHeld
<1>5. CASE WriteLock
  <2>1. /\ pc = "lock" /\ pc' = "schema" /\ world' = world /\ ws'.files = ws.files
        /\ DOMAIN ws'.lock.files = ComponentSet
        /\ ws'.lock.files = [c \in ComponentSet |-> ws'.lock.files[c]]
    BY <1>5 DEF WriteLock, Step, Write, IInv, Forms
  <2>2. \A c \in ComponentSet : ws'.lock.files[c] = ws'.files[c]
    BY <1>5, <2>1, LockFiles DEF IInv, FilesHeld
  <2>3. ws'.files = ws'.lock.files
    BY <2>1, <2>2 DEF IInv, Forms
  <2>4. \A c \in ComponentSet : RepositoryOf[c] \in DOMAIN job.trees
    BY <2>1, ComponentsKnown DEF IInv, TreesKept, Resolving
  <2>5. \A c \in ComponentSet : ws'.lock.files[c] <= world'.heads[RepositoryOf[c]]
    BY <1>5, <2>1, <2>4, LockFiles DEF IInv, TreesKept, Resolving
  <2> QED
    BY <2>1, <2>3, <2>5 DEF FilesHeld
<1>6. CASE NormalizeSchema
  BY <1>6 DEF NormalizeSchema, Step, Write, IInv, Forms, TagHeld, FilesHeld
<1>7. CASE Validate \/ (\E r \in Repositories : Audit(r))
  BY <1>7 DEF Validate, Audit, Step, Keep, IInv, FilesHeld
<1>8. CASE CheckContracts \/ GenerateSums \/ FinalizeSums \/ VerifySums
  BY <1>8 DEF CheckContracts, GenerateSums, FinalizeSums, VerifySums, Step, Write, IInv, Forms,
     FilesHeld
<1>9. CASE Servers \/ UNCHANGED vars
  <2>1. CASE pc \in LockWritten
    <3>1. ws.files = ws.lock.files /\ ws.files \in [ComponentSet -> Nat]
      BY <2>1 DEF IInv, Forms, FilesHeld
    <3>2. \A c \in ComponentSet : ws.lock.files[c] <= world.heads[RepositoryOf[c]]
      BY <2>1 DEF IInv, FilesHeld
    <3>3. \A c \in ComponentSet : ws.lock.files[c] <= world'.heads[RepositoryOf[c]]
      <4> SUFFICES ASSUME NEW c \in ComponentSet
                   PROVE  ws.lock.files[c] <= world'.heads[RepositoryOf[c]]
        OBVIOUS
      <4>1. RepositoryOf[c] \in Repositories
        BY ComponentsKnown
      <4>2. /\ world.heads[RepositoryOf[c]] \in Nat /\ world'.heads[RepositoryOf[c]] \in Nat
            /\ world.heads[RepositoryOf[c]] <= world'.heads[RepositoryOf[c]]
        BY <4>1, HeadsGrow DEF IInv, Forms
      <4> QED
        BY <3>1, <3>2, <4>2
    <3> QED
      BY <1>9, <2>1, <3>1, <3>3, Outside DEF FilesHeld
  <2>2. CASE pc \notin LockWritten
    BY <1>9, <2>2, Outside DEF IInv, FilesHeld
  <2> QED
    BY <2>1, <2>2
<1>10. CASE pc' \notin {"select", "patches", "sources", "lock"} \cup LockWritten
  BY <1>10 DEF FilesHeld
<1> QED
  BY <1>1, <1>2, <1>3, <1>4, <1>5, <1>6, <1>7, <1>8, <1>9, <1>10, ResolverSteps, LockSteps
     DEF Resolving

LEMMA InstantStep ==
  ASSUME IInv, [Next]_vars
  PROVE  InstantHeld'
<1> USE DEF LockWritten, InAudit, Sealed
<1>1. CASE Validate
  <2>1. /\ pc = "validate" /\ pc' = "audit" /\ world' = world /\ ws' = ws
        /\ instant' = world.heads /\ job'.pass = 1 /\ job'.todo = Repositories
    BY <1>1 DEF Validate, Step, Idle
  <2>2. \A c \in ComponentSet : RepositoryOf[c] \in Repositories
    BY ComponentsKnown
  <2> QED
    BY <2>1, <2>2 DEF InstantHeld, NewestThen, IInv, Forms, FilesHeld
<1>2. CASE \E r \in Repositories : Audit(r)
  <2> PICK r \in Repositories : Audit(r)
    BY <1>2
  <2> DEFINE rest == job.todo \ {r}
  <2>1. /\ pc = "audit" /\ pc' = (IF rest = {} /\ job.pass = 2 THEN "contracts" ELSE "audit")
        /\ UNCHANGED <<world, ws, instant>>
        /\ IF rest = {} /\ job.pass = 1 THEN job'.pass = 2
                                       ELSE job'.pass = job.pass /\ job'.todo = rest
    BY DEF Audit, Step, Keep, IInv, Forms
  <2>2. /\ instant \in [Repositories \cup Drivers -> Nat]
        /\ \A s \in Repositories : instant[s] <= world.heads[s]
        /\ \A c \in ComponentSet : ws.lock.files[c] <= instant[RepositoryOf[c]]
        /\ job.pass \in {1, 2}
    BY <2>1 DEF IInv, InstantHeld
  <2>3. \A c \in ComponentSet : RepositoryOf[c] = r => NewestThen(c)
    <3> SUFFICES ASSUME NEW c \in ComponentSet, RepositoryOf[c] = r PROVE NewestThen(c)
      OBVIOUS
    <3>1. ws.lock.files[c] = world.heads[r]
      BY DEF Audit, Current, Of
    <3>2. world.heads[r] \in Nat /\ instant[r] \in Nat /\ instant[r] <= world.heads[r]
      BY <2>2 DEF IInv, Forms
    <3>3. ws.lock.files[c] <= instant[r]
      BY <2>2
    <3> QED
      BY <3>1, <3>2, <3>3 DEF NewestThen
  <2>4. CASE job.pass = 1
    <3>1. \A c \in ComponentSet : RepositoryOf[c] \notin rest => NewestThen(c)
      BY <2>1, <2>3, <2>4 DEF IInv, InstantHeld
    <3>2. \A c \in ComponentSet : NewestThen(c)' <=> NewestThen(c)
      BY <2>1 DEF NewestThen
    <3> QED
      BY <2>1, <2>2, <2>4, <3>1, <3>2 DEF InstantHeld
  <2>5. CASE job.pass = 2
    <3>1. \A c \in ComponentSet : NewestThen(c)'
      BY <2>1, <2>5 DEF IInv, InstantHeld, NewestThen
    <3> QED
      BY <2>1, <2>2, <2>5, <3>1 DEF InstantHeld
  <2> QED
    BY <2>2, <2>4, <2>5
<1>3. CASE CheckContracts \/ GenerateSums \/ FinalizeSums \/ VerifySums
  <2>1. /\ pc \in Sealed /\ pc' \in Sealed /\ UNCHANGED <<world, instant>>
        /\ ws'.lock = ws.lock
    BY <1>3 DEF CheckContracts, GenerateSums, FinalizeSums, VerifySums, Step, Write, IInv, Forms
  <2> QED
    BY <2>1 DEF IInv, InstantHeld, NewestThen
<1>4. CASE Servers \/ UNCHANGED vars
  <2>1. UNCHANGED <<pc, job, ws, instant>>
    BY <1>4, Outside
  <2>2. ASSUME pc \in InAudit, NEW r \in Repositories PROVE instant[r] <= world'.heads[r]
    <3>1. instant[r] \in Nat /\ world.heads[r] \in Nat /\ instant[r] <= world.heads[r]
      BY <2>2 DEF IInv, Forms, InstantHeld
    <3>2. world'.heads[r] \in Nat /\ world.heads[r] <= world'.heads[r]
      BY HeadsGrow DEF IInv
    <3> QED
      BY <3>1, <3>2
  <2> QED
    BY <2>1, <2>2 DEF IInv, InstantHeld, NewestThen
<1>5. CASE WriteLock \/ NormalizeSchema
  BY <1>5 DEF WriteLock, NormalizeSchema, Step, InstantHeld
<1>6. CASE pc' \notin LockWritten
  BY <1>6 DEF InstantHeld
<1> QED
  BY <1>1, <1>2, <1>3, <1>4, <1>5, <1>6, LockSteps

\* Only two steps write the lock, and a fresh checkout has none.
LEMMA LockWriters ==
  ASSUME IInv, [Next]_vars
  PROVE  ws'.lock = ws.lock \/ ws'.lock = None \/ WriteLock \/ NormalizeSchema
<1>1. CASE (\E d \in Drivers : ResolveDriver(d)) \/ WriteDriverLock \/ WriteDriverSources
           \/ NormalizePkgbuild
  BY <1>1 DEF ResolveDriver, WriteDriverLock, WriteDriverSources, NormalizePkgbuild, Step, Write,
     Keep, IInv, Forms
<1>2. CASE FindSource \/ CheckArchive \/ FetchConfig \/ WriteBase
           \/ (\E name \in {"manifest", "overrides", "record"} : WriteLog(name))
  BY <1>2 DEF FindSource, CheckArchive, FetchConfig, WriteBase, WriteLog, Write, Keep, IInv, Forms
<1>3. CASE LockTag \/ Select \/ WritePatch \/ WriteSources
  BY <1>3 DEF LockTag, Select, WritePatch, WriteSources, Write, Keep, IInv, Forms
<1>4. CASE Validate \/ (\E r \in Repositories : Audit(r))
  BY <1>4 DEF Validate, Audit, Keep
<1>5. CASE CheckContracts \/ GenerateSums \/ FinalizeSums \/ VerifySums \/ Build
  BY <1>5 DEF CheckContracts, GenerateSums, FinalizeSums, VerifySums, Build, Write, IInv, Forms
<1>6. CASE Refuse \/ (\E torn \in BOOLEAN : Fail(torn)) \/ (\E fresh \in BOOLEAN : Rerun(fresh))
  BY <1>6 DEF Refuse, Fail, Rerun, Checkout, IInv, Forms
<1>7. CASE Servers \/ UNCHANGED vars
  BY <1>7, Outside
<1> QED
  BY <1>1, <1>2, <1>3, <1>4, <1>5, <1>6, <1>7 DEF Next, Job

LEMMA CommitStep ==
  ASSUME IInv, [Next]_vars
  PROVE  OneCommitPerRepository' /\ (pc = "schema" => SameCommit)'
<1>1. CASE WriteLock
  BY <1>1, LockFiles DEF OneCommitPerRepository, SameCommit
<1>2. CASE NormalizeSchema
  <2>1. pc = "schema" /\ pc' # "schema"
    BY <1>2 DEF NormalizeSchema, Step
  <2>2. ws'.lock.files = ws.lock.files
    BY <1>2, <2>1 DEF NormalizeSchema, Write, IInv, Forms, TagHeld, LockWritten
  <2> QED
    BY <2>1, <2>2 DEF IInv, SameCommit, OneCommitPerRepository
<1>3. CASE ~WriteLock /\ ~NormalizeSchema
  <2>1. OneCommitPerRepository'
    BY <1>3, LockWriters DEF IInv, OneCommitPerRepository
  <2>2. pc' = "schema" => UNCHANGED <<pc, ws>>
    BY <1>3, LockSteps, Outside
       DEF LockWritten, Validate, Audit, CheckContracts, GenerateSums, FinalizeSums, VerifySums,
           Step
  <2>3. (pc = "schema" => SameCommit)'
    BY <2>2 DEF IInv, SameCommit
  <2> QED
    BY <2>1, <2>3
<1> QED
  BY <1>1, <1>2, <1>3

LEMMA BuiltStep ==
  ASSUME IInv, [Next]_vars
  PROVE  BuiltAsLocked' /\ OneInstant'
<1>1. CASE Build
  <2>1. /\ pc = "build" /\ built'.inputs = ws /\ built'.instant = instant
        /\ ws.lock.tag = ws.pkgbuild.tag
    BY <1>1 DEF Build
  <2>2. pc \in Sealed /\ pc \in LockWritten /\ pc \in Located /\ pc \in DriversRead
    BY <2>1 DEF Sealed, InAudit, LockWritten, Located, DriversRead
  <2>3. BuiltAsLocked'
    BY <2>1, <2>2 DEF IInv, BuiltAsLocked, FilesHeld, TagHeld, SourceHeld, DriversHeld, SumsHeld,
       Sources, Digests, Sealed
  <2>4. OneInstant'
    BY <2>1, <2>2 DEF IInv, OneInstant, InstantHeld, FilesHeld, NewestThen
  <2> QED
    BY <2>3, <2>4
<1>2. CASE UNCHANGED built
  BY <1>2 DEF IInv, BuiltAsLocked, OneInstant
<1> QED
  <2>1. Build \/ UNCHANGED built
    BY Outside
       DEF Next, Job, ResolveDriver, WriteDriverLock, WriteDriverSources, NormalizePkgbuild,
           FindSource, CheckArchive, FetchConfig, WriteLog, WriteBase, LockTag, Select, WritePatch,
           WriteSources, WriteLock, NormalizeSchema, Validate, Audit, CheckContracts, GenerateSums,
           FinalizeSums, VerifySums, Refuse, Step, Fail, Rerun
  <2> QED
    BY <2>1, <1>1, <1>2

-----------------------------------------------------------------------------
(* The theorems.                                                           *)

LEMMA InitInv == Init => IInv
<1> SUFFICES ASSUME Init PROVE IInv
  OBVIOUS
<1>1. Forms
  BY DEF Init, Forms, Checkout, Idle, NoPatches
<1>2. DriversHeld /\ SourceHeld /\ TagHeld
  BY DEF Init, DriversHeld, SourceHeld, TagHeld, Checkout, PkgbuildFields, DriversRead, Locating,
     Located, Resolving, LockWritten, InAudit, Sealed
<1>3. TreesKept /\ FilesHeld /\ InstantHeld /\ SumsHeld
  BY DEF Init, TreesKept, FilesHeld, InstantHeld, SumsHeld, Resolving, LockWritten, InAudit, Sealed
<1>4. (pc = "schema" => SameCommit)
  /\ OneCommitPerRepository /\ BuiltAsLocked /\ OneInstant
  BY DEF Init, OneCommitPerRepository, BuiltAsLocked, OneInstant, Checkout
<1> QED
  BY <1>1, <1>2, <1>3, <1>4 DEF IInv

LEMMA StepInv == IInv /\ [Next]_vars => IInv'
<1> SUFFICES ASSUME IInv, [Next]_vars PROVE IInv'
  OBVIOUS
<1> QED
  BY FormsStep, DriversStep, SourceStep, TagStep, TreesStep, FilesStep, InstantStep, SumsStep,
     CommitStep, BuiltStep DEF IInv

LEMMA Invariant == Spec => []IInv
BY InitInv, StepInv, PTL DEF Spec

(* Components of one repository are locked at one commit, although each is *)
(* resolved in a request of its own while upstream moves.                  *)
THEOREM CommitsAgree == Spec => []OneCommitPerRepository
<1>1. IInv => OneCommitPerRepository
  BY DEF IInv
<1> QED
  BY <1>1, Invariant, PTL

(* The patches of a build were all the newest when its validation began.   *)
THEOREM NewestAtOnce == Spec => []OneInstant
<1>1. IInv => OneInstant
  BY DEF IInv
<1> QED
  BY <1>1, Invariant, PTL

(* Kernel, config, names, patches, sums and drivers of a build are those   *)
(* its locks name, whatever earlier jobs left in the workspace.            *)
THEOREM BuildsLocked == Spec => []BuiltAsLocked
<1>1. IInv => BuiltAsLocked
  BY DEF IInv
<1> QED
  BY <1>1, Invariant, PTL

-----------------------------------------------------------------------------
(* The package a job finds is one that was published.                      *)

LEMMA StockKnown ==
  ASSUME NEW p \in Published
  PROVE  /\ p.core \in Seq(Nat) /\ Len(p.core) = 3
         /\ p.rc \in Int /\ p.valve \in Seq(Nat) /\ p.beta \in Nat /\ p.pkgrel \in Nat
<1>1. PICK i \in Images : p \in Stock[i]
  BY DEF Published
<1> QED BY <1>1, PackagesAssumption

LEMMA RankNumbers ==
  ASSUME NEW p \in Published
  PROVE  PackageRank(p) \in Numbers
<1> DEFINE marks == << IF p.rc < 0 THEN 1 ELSE 0, IF p.rc < 0 THEN 1000000 ELSE p.rc,
                       IF p.valve = <<>> \/ p.beta > 0 THEN 0 ELSE 1,
                       IF p.valve = <<>> THEN 0 ELSE p.valve[1], p.beta >>
           rest == IF p.valve = <<>> THEN <<>> ELSE LastFour(Tail(p.valve))
           last == <<p.pkgrel>>
           core == p.core
<1>1. core \in Seq(Int) /\ last \in Seq(Int)
  BY StockKnown
<1>2. p.valve # <<>> => p.valve[1] \in Int /\ Tail(p.valve) \in Seq(Int)
  <2>1. p.valve \in Seq(Nat)
    BY StockKnown
  <2> QED BY <2>1
<1>3. marks \in Seq(Int)
  <2> DEFINE a == IF p.rc < 0 THEN 1 ELSE 0
             b == IF p.rc < 0 THEN 1000000 ELSE p.rc
             c == IF p.valve = <<>> \/ p.beta > 0 THEN 0 ELSE 1
             d == IF p.valve = <<>> THEN 0 ELSE p.valve[1]
             e == p.beta
  <2>1. a \in Int /\ b \in Int /\ c \in Int /\ d \in Int /\ e \in Int
    BY <1>2, StockKnown
  <2>2. marks = <<a, b, c, d, e>>
    OBVIOUS
  <2> HIDE DEF a, b, c, d, e, marks
  <2>3. <<a, b, c, d, e>> \in Seq(Int)
    BY <2>1
  <2> QED BY <2>2, <2>3
<1>4. rest \in Seq(Int)
  <2> DEFINE t == Tail(p.valve)
  <2>1. p.valve # <<>> => t \in Seq(Int)
    BY <1>2
  <2> HIDE DEF t
  <2>2. ASSUME t \in Seq(Int) PROVE LastFour(t) \in Seq(Int)
    <3>1. Len(t) \in Nat /\ \A m \in 1..Len(t) : t[m] \in Int
      BY <2>2
    <3>2. CASE Len(t) <= 4
      BY <2>2, <3>2 DEF LastFour
    <3>3. CASE ~(Len(t) <= 4)
      <4>1. LastFour(t) = SubSeq(t, Len(t) - 3, Len(t))
        BY <3>3 DEF LastFour
      <4>2. Len(t) - 3 \in 1..(Len(t) + 1) /\ Len(t) \in (Len(t) - 3 - 1)..Len(t)
        BY <3>1, <3>3
      <4>3. SubSeq(t, Len(t) - 3, Len(t)) \in Seq(Int)
        BY <2>2, <3>1, <3>3
      <4> QED BY <4>1, <4>3
    <3> QED BY <3>2, <3>3
  <2>3. rest = IF p.valve = <<>> THEN <<>> ELSE LastFour(t)
    BY DEF t
  <2>4. <<>> \in Seq(Int)
    OBVIOUS
  <2> HIDE DEF rest
  <2> QED BY <2>1, <2>2, <2>3, <2>4
<1>5. PackageRank(p) = ((core \o marks) \o rest) \o last
  BY DEF PackageRank
<1> HIDE DEF core, marks, rest, last
<1>6. core \o marks \in Seq(Int)
  BY <1>1, <1>3, ConcatProperties, Zenon
<1>7. (core \o marks) \o rest \in Seq(Int)
  BY <1>4, <1>6, ConcatProperties, Zenon
<1>8. ((core \o marks) \o rest) \o last \in Seq(Int)
  BY <1>1, <1>7, ConcatProperties, Zenon
<1> QED BY <1>5, <1>8 DEF Numbers

\* The newest package of a finite index is in it.
LEMMA NewestIndexed ==
  ASSUME NEW S, IsFiniteSet(S), S \subseteq Published, NEW pre, NewestPackage(S, pre).ok
  PROVE  NewestPackage(S, pre).package \in S
<1> DEFINE items == {p \in S : pre \/ (p.rc < 0 /\ p.beta = 0)}
           key == [p \in items |-> <<PackageRank(p)>>]
<1>1. /\ items # {} /\ items \subseteq S /\ IsFiniteSet(items)
      /\ NewestPackage(S, pre).package = Largest(items, LAMBDA p : <<PackageRank(p)>>)
  BY FS_Subset DEF NewestPackage, Refused
<1> HIDE DEF items
<1>2. key \in [items -> Keys(1)]
  <2> SUFFICES ASSUME NEW p \in items PROVE <<PackageRank(p)>> \in Keys(1)
    OBVIOUS
  <2>1. PackageRank(p) \in Numbers
    BY <1>1, RankNumbers
  <2> QED BY <2>1 DEF Keys
<1>3. PICK c \in items : \A d \in items : ~KeyLess(key[c], key[d])
  <2> HIDE DEF key
  <2> QED BY <1>1, <1>2, GreatestKey
<1>4. \A d \in items : ~KeyLess(<<PackageRank(c)>>, <<PackageRank(d)>>)
  BY <1>3
<1>5. Largest(items, LAMBDA p : <<PackageRank(p)>>) \in items
  BY <1>4 DEF Largest
<1> QED BY <1>1, <1>5

\* The stable image is one of those in the metadata.
LEMMA ImageKnown ==
  ASSUME NEW S, IsFiniteSet(S), S \subseteq Images, StableImage(S).ok
  PROVE  StableImage(S).image \in S
<1> DEFINE stable == {i \in S : i.branch = "stable"}
           key == [i \in stable |-> <<i.version, i.build>>]
<1>1. /\ stable # {} /\ stable \subseteq S /\ IsFiniteSet(stable)
      /\ \A i \in stable : i.valid
      /\ StableImage(S).image = Largest(stable, LAMBDA i : <<i.version, i.build>>)
  BY FS_Subset DEF StableImage, Refused
<1> HIDE DEF stable
<1>2. key \in [stable -> Keys(2)]
  <2> SUFFICES ASSUME NEW i \in stable PROVE <<i.version, i.build>> \in Keys(2)
    OBVIOUS
  <2>1. i.version \in Seq(Nat) /\ i.build \in Seq(Nat)
    BY <1>1, PackagesAssumption
  <2>2. i.version \in Numbers /\ i.build \in Numbers
    BY <2>1 DEF Numbers
  <2> QED BY <2>2 DEF Keys
<1>3. PICK c \in stable : \A d \in stable : ~KeyLess(key[c], key[d])
  <2> HIDE DEF key
  <2> QED BY <1>1, <1>2, GreatestKey
<1>4. \A d \in stable : ~KeyLess(<<c.version, c.build>>, <<d.version, d.build>>)
  BY <1>3
<1>5. Largest(stable, LAMBDA i : <<i.version, i.build>>) \in stable
  BY <1>4 DEF Largest
<1> QED BY <1>1, <1>5

LEMMA SourcePublished ==
  ASSUME world.metadata \subseteq Images, IsFiniteSet(world.metadata),
         world.archives \subseteq Published, IsFiniteSet(world.archives), Newest.ok
  PROVE  Newest.package \in Published
<1>1. CASE channel = "stable"
  <2> DEFINE stable == StableImage(world.metadata)
  <2>1. stable.ok /\ KernelPackage(Stock[stable.image]).ok
        /\ Newest.package = KernelPackage(Stock[stable.image]).package
    BY <1>1 DEF Newest, StableSource, Refused
  <2>2. stable.image \in Images
    BY <2>1, ImageKnown
  <2> DEFINE packages == Stock[stable.image]
  <2>3. KernelPackage(packages).ok => packages # {} /\ KernelPackage(packages).package \in packages
    <3> HIDE DEF packages
    <3>1. Cardinality({}) = 0
      BY FS_EmptySet
    <3>2. KernelPackage(packages).ok => packages # {}
      BY <3>1 DEF KernelPackage, Refused
    <3>3. packages # {} => (CHOOSE p \in packages : TRUE) \in packages
      OBVIOUS
    <3> QED BY <3>2, <3>3 DEF KernelPackage, Refused
  <2> QED BY <2>1, <2>2, <2>3 DEF Published
<1>2. CASE channel # "stable"
  <2>1. Newest = NewestPackage(IndexPackages(world.archives), FALSE)
    BY <1>2 DEF Newest
  <2>2. IndexPackages(world.archives) \subseteq Published /\ IsFiniteSet(IndexPackages(world.archives))
    BY FS_Subset DEF IndexPackages
  <2> QED BY <2>1, <2>2, NewestIndexed
<1> QED BY <1>1, <1>2

-----------------------------------------------------------------------------
(* Types.                                                                  *)

\* The steps of a job between the discovery of the source and the resolver.
Found == (Locating \ {"source"}) \cup {"base"}

\* The servers hold finitely many published things, and a head moves with a push.
Served ==
  /\ world.metadata \subseteq Images /\ IsFiniteSet(world.metadata)
  /\ world.archives \subseteq Published /\ IsFiniteSet(world.archives)
  /\ world.pushes \in 0..MaxPushes
  /\ \A r \in Repositories \cup Drivers : world.heads[r] <= 1 + world.pushes

\* What a job found was published.
SourceKnown ==
  /\ pc \in Found => job.source \in Published
  /\ pc \in Located => ws.config \in Published

TInv == Served /\ SourceKnown /\ TypeOK

LEMMA InitTypes == Init => TInv
<1> SUFFICES ASSUME Init PROVE TInv
  OBVIOUS
<1>1. PICK first \in Images :
        world = [metadata |-> {first}, archives |-> Stock[first],
                 mirror |-> {TagOf(p) : p \in Stock[first]},
                 heads |-> [r \in Repositories \cup Drivers |-> 1], pushes |-> 0]
  BY DEF Init
<1>2. IsFiniteSet({first}) /\ IsFiniteSet(Stock[first])
  BY FS_Singleton, PackagesAssumption
<1>3. Served
  BY <1>1, <1>2, BuildInputsAssumption DEF Served, Published
<1>4. SourceKnown
  BY DEF Init, SourceKnown, Found, Locating, Located, Resolving, LockWritten, InAudit, Sealed
<1>5. TypeOK
  BY BuildInputsAssumption DEF Init, TypeOK, Checkout, NoPatches
<1> QED BY <1>3, <1>4, <1>5 DEF TInv

LEMMA ServedStep ==
  ASSUME IInv, TInv, [Next]_vars
  PROVE  Served'
<1> USE DEF World
<1>1. CASE \E r \in Repositories \cup Drivers : Push(r)
  <2> PICK r \in Repositories \cup Drivers : Push(r)
    BY <1>1
  <2>1. /\ world.pushes < MaxPushes /\ world'.pushes = world.pushes + 1
        /\ world'.metadata = world.metadata /\ world'.archives = world.archives
        /\ \A s \in Repositories \cup Drivers :
             world'.heads[s] = IF s = r THEN world.heads[s] + 1 ELSE world.heads[s]
    BY DEF Push, IInv, Forms
  <2>2. /\ world.pushes \in 0..MaxPushes /\ MaxPushes \in Nat
        /\ \A s \in Repositories \cup Drivers :
             world.heads[s] \in Nat /\ world.heads[s] <= 1 + world.pushes
    BY BuildInputsAssumption DEF TInv, Served, IInv, Forms
  <2>3. world'.pushes \in 0..MaxPushes
    BY <2>1, <2>2
  <2>4. \A s \in Repositories \cup Drivers : world'.heads[s] <= 1 + world'.pushes
    BY <2>1, <2>2
  <2> QED BY <2>1, <2>3, <2>4 DEF TInv, Served
<1>2. CASE \E i \in Images : ReleaseImage(i)
  <2> PICK i \in Images : ReleaseImage(i)
    BY <1>2
  <2>1. /\ world'.metadata = world.metadata \cup {i} /\ world'.archives = world.archives
        /\ world'.pushes = world.pushes /\ world'.heads = world.heads
    BY DEF ReleaseImage, IInv, Forms
  <2>2. IsFiniteSet(world'.metadata)
    BY <2>1, FS_AddElement DEF TInv, Served
  <2> QED BY <2>1, <2>2 DEF TInv, Served
<1>3. CASE \E p \in Published : Archive(p)
  <2> PICK p \in Published : Archive(p)
    BY <1>3
  <2>1. /\ world'.archives = world.archives \cup {p} /\ world'.metadata = world.metadata
        /\ world'.pushes = world.pushes /\ world'.heads = world.heads
    BY DEF Archive, IInv, Forms
  <2>2. IsFiniteSet(world'.archives)
    BY <2>1, FS_AddElement DEF TInv, Served
  <2> QED BY <2>1, <2>2 DEF TInv, Served
<1>4. CASE \E p \in Published : Mirror(p)
  <2>1. /\ world'.archives = world.archives /\ world'.metadata = world.metadata
        /\ world'.pushes = world.pushes /\ world'.heads = world.heads
    BY <1>4 DEF Mirror, IInv, Forms
  <2> QED BY <2>1 DEF TInv, Served
<1>5. CASE UNCHANGED world
  BY <1>5 DEF TInv, Served
<1> QED
  BY <1>1, <1>2, <1>3, <1>4, <1>5, Inside DEF Next, Servers, vars

LEMMA KnownStep ==
  ASSUME IInv, TInv, [Next]_vars
  PROVE  SourceKnown'
<1> USE DEF Found, Locating, Located, Resolving, LockWritten, InAudit, Sealed
<1>1. CASE (\E d \in Drivers : ResolveDriver(d)) \/ WriteDriverLock \/ WriteDriverSources
           \/ NormalizePkgbuild
  BY <1>1 DEF ResolveDriver, WriteDriverLock, WriteDriverSources, NormalizePkgbuild, Step,
     SourceKnown
<1>2. CASE FindSource
  <2>1. Newest.package \in Published
    BY <1>2, SourcePublished DEF FindSource, TInv, Served
  <2>2. job'.source = Newest.package /\ pc' \in {"archive", "manifest"}
    BY <1>2 DEF FindSource, Step, Keep, IInv, Forms
  <2> QED BY <2>1, <2>2 DEF SourceKnown
<1>3. CASE CheckArchive \/ FetchConfig
  BY <1>3 DEF CheckArchive, FetchConfig, Step, Write, SourceKnown, TInv
<1>4. CASE \E name \in {"manifest", "overrides", "record"} : WriteLog(name)
  <2> PICK name \in {"manifest", "overrides", "record"} : WriteLog(name)
    BY <1>4
  <2>1. pc = name /\ pc' = AfterLog[name] /\ job' = job /\ ws'.config = ws.config
    BY DEF WriteLog, Step, Write, IInv, Forms
  <2>2. pc' \in {"overrides", "config", "record", "base", "tag"}
        /\ (pc' \in {"base", "tag"} => pc = "record")
    BY <2>1 DEF AfterLog
  <2>3. job.source \in Published /\ (pc = "record" => ws.config = job.source)
    BY <2>1 DEF TInv, SourceKnown, IInv, SourceHeld
  <2> QED BY <2>1, <2>2, <2>3 DEF SourceKnown
<1>5. CASE WriteBase
  BY <1>5 DEF WriteBase, Step, Write, SourceKnown, TInv, IInv, Forms
<1>6. CASE LockTag \/ Select \/ WritePatch \/ WriteSources
  BY <1>6 DEF LockTag, Select, WritePatch, WriteSources, Step, Write, Keep, SourceKnown, TInv,
     IInv, Forms
<1>7. CASE WriteLock \/ NormalizeSchema
  BY <1>7 DEF WriteLock, NormalizeSchema, Step, Write, SourceKnown, TInv, IInv, Forms
<1>8. CASE Validate \/ (\E r \in Repositories : Audit(r))
  BY <1>8 DEF Validate, Audit, Step, Keep, SourceKnown, TInv
<1>9. CASE CheckContracts \/ GenerateSums \/ FinalizeSums \/ VerifySums \/ Build
  BY <1>9 DEF CheckContracts, GenerateSums, FinalizeSums, VerifySums, Build, Step, Write,
     SourceKnown, TInv, IInv, Forms
<1>10. CASE Refuse \/ (\E torn \in BOOLEAN : Fail(torn)) \/ (\E fresh \in BOOLEAN : Rerun(fresh))
  BY <1>10 DEF Refuse, Fail, Rerun, SourceKnown
<1>11. CASE Servers \/ UNCHANGED vars
  BY <1>11, Outside DEF SourceKnown, TInv
<1> QED
  BY <1>1, <1>2, <1>3, <1>4, <1>5, <1>6, <1>7, <1>8, <1>9, <1>10, <1>11 DEF Next, Job

\* A commit in the memory of the resolver is one of the bounded heads.
LEMMA CommitsBounded ==
  ASSUME IInv, TInv, pc \in Resolving, NEW r \in DOMAIN job.trees
  PROVE  job.trees[r] \in 0..(1 + MaxPushes)
<1>1. r \in Repositories /\ job.trees[r] \in Nat /\ job.trees[r] <= world.heads[r]
  BY DEF IInv, TreesKept
<1>2. world.heads[r] \in Nat /\ world.heads[r] <= 1 + world.pushes /\ world.pushes \in 0..MaxPushes
      /\ MaxPushes \in Nat
  BY <1>1, BuildInputsAssumption DEF IInv, Forms, TInv, Served
<1> QED BY <1>1, <1>2

\* What TypeOK says of a workspace.
Typed(w) ==
  /\ w.config \in Published \cup {None}
  /\ \A name \in DOMAIN w.logs : w.logs[name] \in Published \cup {None}
  /\ \A c \in ComponentSet : w.files[c] \in 0..(1 + MaxPushes)
  /\ w.lock # None => w.lock.schema \in {3, 5} /\ (w.lock.schema = 5 => Len(w.lock.version) = 3)

LEMMA TypeStep ==
  ASSUME IInv, TInv, [Next]_vars
  PROVE  TypeOK'
<1> USE DEF Found, Locating
<1>0. /\ channel \in {"stable", "index"} /\ failures \in 0..MaxFailures /\ MaxFailures \in Nat
      /\ Typed(ws)
  BY BuildInputsAssumption DEF TInv, TypeOK, Typed
<1>1. CASE WriteDriverLock \/ WriteDriverSources \/ NormalizePkgbuild \/ WriteBase \/ WriteSources
           \/ GenerateSums \/ FinalizeSums
  <2>1. /\ UNCHANGED <<channel, failures>> /\ ws'.config = ws.config /\ ws'.logs = ws.logs
        /\ ws'.files = ws.files /\ ws'.lock = ws.lock
    BY <1>1 DEF WriteDriverLock, WriteDriverSources, NormalizePkgbuild, WriteBase, WriteSources,
       GenerateSums, FinalizeSums, Step, Write, IInv, Forms
  <2> QED BY <1>0, <2>1 DEF TypeOK, Typed
<1>2. CASE FetchConfig
  <2>1. /\ pc = "config" /\ UNCHANGED <<channel, failures>> /\ ws'.config = job.source
        /\ ws'.logs = ws.logs /\ ws'.files = ws.files /\ ws'.lock = ws.lock
    BY <1>2 DEF FetchConfig, Step, Write, IInv, Forms
  <2>2. job.source \in Published
    BY <2>1 DEF TInv, SourceKnown
  <2> QED BY <1>0, <2>1, <2>2 DEF TypeOK, Typed
<1>3. CASE \E name \in {"manifest", "overrides", "record"} : WriteLog(name)
  <2> PICK name \in {"manifest", "overrides", "record"} : WriteLog(name)
    BY <1>3
  <2>1. /\ pc = name /\ UNCHANGED <<channel, failures>> /\ ws'.config = ws.config
        /\ ws'.logs = [ws.logs EXCEPT ![name] = job.source]
        /\ ws'.files = ws.files /\ ws'.lock = ws.lock
    BY DEF WriteLog, Step, Write, IInv, Forms
  <2>2. job.source \in Published
    BY <2>1 DEF TInv, SourceKnown
  <2>3. \A n \in DOMAIN ws'.logs : ws'.logs[n] \in Published \cup {None}
    BY <1>0, <2>1, <2>2 DEF Typed
  <2> QED BY <1>0, <2>1, <2>3 DEF TypeOK, Typed
<1>4. CASE WritePatch
  <2> DEFINE n == job.written + 1
  <2>1. /\ pc = "patches" /\ UNCHANGED <<channel, failures>> /\ ws'.config = ws.config
        /\ ws'.logs = ws.logs /\ ws'.lock = ws.lock
        /\ ws'.files = [ws.files EXCEPT ![Components[n]] = job.got[n]]
    BY <1>4 DEF WritePatch, Step, IInv, Forms
  <2>2. n \in 1..Len(job.got) /\ pc \in Resolving
    BY <2>1, ComponentsKnown DEF IInv, TreesKept, FilesHeld, Resolving
  <2>3. job.got[n] \in 0..(1 + MaxPushes)
    <3>1. /\ RepositoryOf[Components[n]] \in DOMAIN job.trees
          /\ job.got[n] = job.trees[RepositoryOf[Components[n]]]
      BY <2>2 DEF IInv, TreesKept
    <3> QED BY <2>2, <3>1, CommitsBounded
  <2>4. \A c \in ComponentSet : ws'.files[c] \in 0..(1 + MaxPushes)
    BY <1>0, <2>1, <2>3 DEF Typed, IInv, Forms
  <2> QED BY <1>0, <2>1, <2>4 DEF TypeOK, Typed
<1>5. CASE WriteLock
  <2>1. /\ UNCHANGED <<channel, failures>> /\ ws'.config = ws.config /\ ws'.logs = ws.logs
        /\ ws'.files = ws.files /\ ws'.lock.schema = 3
    BY <1>5 DEF WriteLock, Step, Write, IInv, Forms
  <2> QED BY <1>0, <2>1 DEF TypeOK, Typed
<1>6. CASE NormalizeSchema
  <2>1. /\ pc = "schema" /\ UNCHANGED <<channel, failures>> /\ ws'.config = ws.config
        /\ ws'.logs = ws.logs /\ ws'.files = ws.files
    BY <1>6 DEF NormalizeSchema, Step, Write, IInv, Forms
  <2>2. pc \in LockWritten /\ pc \in Located
    BY <2>1 DEF LockWritten, Located
  <2>3. /\ DOMAIN ws.lock = {"schema", "tag", "version", "commit", "files"}
        /\ ws.lock.tag = TagOf(ws.config) /\ ws.config \in Published
    BY <2>2 DEF IInv, TagHeld, TInv, SourceKnown
  <2>4. ws'.lock.schema = 5 /\ ws'.lock.version = ws.lock.tag.core
    BY <1>6, <2>3 DEF NormalizeSchema, Write, IInv, Forms
  <2>5. Len(ws'.lock.version) = 3
    <3>1. ws.lock.tag.core = ws.config.core
      BY <2>3 DEF TagOf
    <3>2. Len(ws.config.core) = 3
      BY <2>3, StockKnown
    <3> QED BY <2>4, <3>1, <3>2
  <2> QED BY <1>0, <2>1, <2>4, <2>5 DEF TypeOK, Typed
<1>7. CASE (\E d \in Drivers : ResolveDriver(d)) \/ FindSource \/ CheckArchive \/ LockTag \/ Select
           \/ Validate \/ (\E r \in Repositories : Audit(r)) \/ CheckContracts \/ VerifySums
           \/ Build \/ Refuse
  <2>1. UNCHANGED <<channel, failures, ws>>
    BY <1>7 DEF ResolveDriver, FindSource, CheckArchive, LockTag, Select, Validate, Audit,
       CheckContracts, VerifySums, Build, Refuse, Step, Keep
  <2> QED BY <1>0, <2>1 DEF TypeOK, Typed
<1>8. CASE \E torn \in BOOLEAN : Fail(torn)
  <2>1. /\ channel' = channel /\ failures < MaxFailures /\ failures' = failures + 1
        /\ ws'.config = ws.config /\ ws'.logs = ws.logs
        /\ ws'.files = ws.files /\ ws'.lock = ws.lock
    BY <1>8 DEF Fail, IInv, Forms
  <2> QED BY <1>0, <2>1 DEF TypeOK, Typed
<1>9. CASE \E fresh \in BOOLEAN : Rerun(fresh)
  <2>1. UNCHANGED <<channel, failures>> /\ (ws' = ws \/ ws' = Checkout)
    BY <1>9 DEF Rerun
  <2>2. Typed(Checkout)
    BY BuildInputsAssumption DEF Typed, Checkout, NoPatches
  <2>3. Typed(ws')
    BY <1>0, <2>1, <2>2
  <2> QED BY <1>0, <2>1, <2>3 DEF TypeOK, Typed
<1>10. CASE Servers \/ UNCHANGED vars
  <2>1. UNCHANGED <<channel, failures, ws>>
    BY <1>10, Outside
  <2> QED BY <1>0, <2>1 DEF TypeOK, Typed
<1> QED
  BY <1>1, <1>2, <1>3, <1>4, <1>5, <1>6, <1>7, <1>8, <1>9, <1>10 DEF Next, Job

LEMMA TypesInvariant == Spec => []TInv
<1>1. IInv /\ TInv /\ [Next]_vars => TInv'
  BY ServedStep, KnownStep, TypeStep DEF TInv
<1> QED
  BY InitTypes, <1>1, Invariant, PTL DEF Spec

(* Whatever is published, the files hold what was, and a lock of schema 5  *)
(* names an exact kernel: its source exists, and is one of the packages.   *)
THEOREM TypeCorrect == Spec => []TypeOK
<1>1. TInv => TypeOK
  BY DEF TInv
<1> QED
  BY <1>1, TypesInvariant, PTL
-----------------------------------------------------------------------------
(* A job ends.                                                             *)

BeforeSelect == {"driverlock", "driversources", "normalize"} \cup Locating \cup {"base", "tag"}
BeforeAudit  == {"sources", "lock", "schema", "validate"}

\* The steps with one turn for each driver, component or repository.
ForDrivers    == Cardinality(Drivers \ DOMAIN job.drivers)
ForComponents == Len(Components)
ForAudit      == Cardinality(Repositories) + Cardinality(Repositories)
AuditsLeft    == Cardinality(job.todo) + IF job.pass = 1 THEN Cardinality(Repositories) ELSE 0

Turns ==
  IF pc = "drivers" THEN ForDrivers + ForComponents + ForComponents + ForAudit
  ELSE IF pc \in BeforeSelect THEN ForComponents + ForComponents + ForAudit
  ELSE IF pc = "select" THEN (ForComponents - Len(job.got)) + ForComponents + ForAudit
  ELSE IF pc = "patches" THEN (ForComponents - job.written) + ForAudit
  ELSE IF pc \in BeforeAudit THEN ForAudit
  ELSE IF pc = "audit" THEN AuditsLeft
  ELSE 0

\* The others, after the turns of this pc.
Others ==
  CASE pc \in {"drivers", "driverlock"}     -> 20
    [] pc = "driversources"                 -> 19
    [] pc = "normalize"                     -> 18
    [] pc = "source"                        -> 17
    [] pc = "archive"                       -> 16
    [] pc = "config"                        -> IF channel = "stable" THEN 15 ELSE 13
    [] pc = "manifest"                      -> 14
    [] pc = "overrides"                     -> 13
    [] pc = "record"                        -> 12
    [] pc = "base"                          -> 11
    [] pc = "tag"                           -> 10
    [] pc \in {"select", "patches", "sources"}
                                            -> 9
    [] pc = "lock"                          -> 8
    [] pc = "schema"                        -> 7
    [] pc = "validate"                      -> 6
    [] pc \in {"audit", "contracts"}        -> 5
    [] pc = "generate"                      -> 4
    [] pc = "finalize"                      -> 3
    [] pc = "verify"                        -> 2
    [] pc = "build"                         -> 1
    [] OTHER                                -> 0

\* The most steps the job still takes.
StepsLeft == Turns + Others

Nearer ==
  [][/\ Job => StepsLeft' < StepsLeft
     /\ pc \notin {"failed", "done"} => StepsLeft' <= StepsLeft]_vars

\* The audit has repositories to read.
AuditHeld ==
  pc = "audit" => /\ job.todo \subseteq Repositories /\ job.todo # {}
                  /\ job.pass \in {1, 2}

LEMMA ListsFinite ==
  /\ IsFiniteSet(Repositories) /\ Cardinality(Repositories) \in Nat /\ Repositories # {}
  /\ Len(Components) \in Nat /\ Len(Components) > 0
<1>1. Len(Components) \in Nat /\ Len(Components) > 0
  BY ComponentsKnown
<1>2. IsFiniteSet(1..Len(Components))
  BY <1>1, FS_Interval
<1> DEFINE Taken == [n \in 1..Len(Components) |-> RepositoryOf[Components[n]]]
<1>3. Taken \in Surjection(1..Len(Components), Repositories)
  BY ComponentsKnown DEF Surjection, Repositories, ComponentSet
<1>4. IsFiniteSet(Repositories)
  BY <1>2, <1>3, FS_Surjection
<1>5. Repositories # {}
  BY <1>1, ComponentsKnown
<1> QED
  BY <1>1, <1>4, <1>5, FS_CardinalityType

LEMMA AuditStep == ASSUME IInv, AuditHeld, [Next]_vars PROVE AuditHeld'
<1>1. CASE Validate
  BY <1>1, ListsFinite DEF Validate, Step, Idle, AuditHeld
<1>2. CASE \E r \in Repositories : Audit(r)
  <2> PICK r \in Repositories : Audit(r)
    BY <1>2
  <2> DEFINE rest == job.todo \ {r}
  <2>1. /\ pc = "audit" /\ pc' = (IF rest = {} /\ job.pass = 2 THEN "contracts" ELSE "audit")
        /\ IF rest = {} /\ job.pass = 1 THEN job'.todo = Repositories /\ job'.pass = 2
                                       ELSE job'.pass = job.pass /\ job'.todo = rest
    BY DEF Audit, Step, Keep, IInv, Forms
  <2> QED
    BY <2>1, ListsFinite DEF AuditHeld
<1>3. CASE Servers \/ UNCHANGED vars
  BY <1>3, Outside DEF AuditHeld
<1>4. CASE CheckContracts \/ GenerateSums \/ FinalizeSums \/ VerifySums \/ WriteLock
           \/ NormalizeSchema
  BY <1>4 DEF CheckContracts, GenerateSums, FinalizeSums, VerifySums, WriteLock, NormalizeSchema,
     Step, AuditHeld
<1>5. CASE pc' \notin LockWritten
  BY <1>5 DEF AuditHeld, LockWritten, InAudit
<1> QED
  BY <1>1, <1>2, <1>3, <1>4, <1>5, LockSteps

LEMMA TurnTypes ==
  ASSUME IInv, AuditHeld
  PROVE  /\ ForDrivers \in Nat /\ ForComponents \in Nat \ {0} /\ ForAudit \in Nat
         /\ pc = "select" => Len(job.got) \in Nat /\ Len(job.got) < ForComponents
         /\ pc = "patches" => job.written \in Nat /\ job.written < ForComponents
         /\ pc = "audit" => AuditsLeft \in Nat
<1>1. ForDrivers \in Nat /\ ForComponents \in Nat \ {0} /\ ForAudit \in Nat
  <2>1. IsFiniteSet(Drivers \ DOMAIN job.drivers)
    BY DriversAssumption, FS_Difference
  <2>2. Cardinality(Drivers \ DOMAIN job.drivers) \in Nat
    BY <2>1, FS_CardinalityType
  <2>3. ForComponents \in Nat \ {0} /\ ForAudit \in Nat
    BY ListsFinite DEF ForComponents, ForAudit
  <2> QED
    BY <2>2, <2>3 DEF ForDrivers
<1>2. pc = "select" => Len(job.got) \in Nat /\ Len(job.got) < ForComponents
  BY DEF IInv, TreesKept, Resolving, ForComponents
<1>3. pc = "patches" => job.written \in Nat /\ job.written < ForComponents
  BY DEF IInv, TreesKept, FilesHeld, Resolving, ForComponents
<1>4. pc = "audit" => AuditsLeft \in Nat
  <2>1. pc = "audit" => Cardinality(job.todo) \in Nat
    BY ListsFinite, FS_Subset, FS_CardinalityType DEF AuditHeld
  <2> QED
    BY <2>1, ListsFinite DEF AuditsLeft
<1> QED
  BY <1>1, <1>2, <1>3, <1>4

LEMMA LeftNatural ==
  ASSUME IInv, AuditHeld
  PROVE  Turns \in Nat /\ Others \in 0..20 /\ StepsLeft \in Nat
<1>1. Turns \in Nat
  <2>1. CASE pc = "drivers" \/ pc \in BeforeSelect \/ pc \in BeforeAudit
    <3>1. /\ ForComponents + ForComponents + ForAudit \in Nat
          /\ ForDrivers + ForComponents + ForComponents + ForAudit \in Nat
      BY TurnTypes
    <3> QED
      BY <2>1, <3>1, TurnTypes DEF Turns, BeforeSelect, BeforeAudit, Locating
  <2>2. CASE pc = "select" \/ pc = "patches"
    <3>1. pc = "select" => (ForComponents - Len(job.got)) + ForComponents + ForAudit \in Nat
      BY TurnTypes
    <3>2. pc = "patches" => (ForComponents - job.written) + ForAudit \in Nat
      BY TurnTypes
    <3> QED
      BY <2>2, <3>1, <3>2 DEF Turns, BeforeSelect, Locating
  <2>3. CASE pc = "audit"
    BY <2>3, TurnTypes DEF Turns, BeforeSelect, BeforeAudit, Locating
  <2>4. CASE pc \notin {"drivers", "select", "patches", "audit"}
                     \cup BeforeSelect \cup BeforeAudit
    BY <2>4 DEF Turns
  <2> QED
    BY <2>1, <2>2, <2>3, <2>4
<1>2. Others \in 0..20
  BY DEF Others
<1> QED
  BY <1>1, <1>2 DEF StepsLeft

\* The steps that go from one pc to the next and leave the turns as they are.
LEMMA PlainSteps ==
  ASSUME IInv, AuditHeld,
         \/ WriteDriverLock \/ WriteDriverSources \/ NormalizePkgbuild
         \/ FindSource \/ CheckArchive \/ FetchConfig
         \/ \E name \in {"manifest", "overrides", "record"} : WriteLog(name)
         \/ WriteBase \/ LockTag \/ WriteSources \/ WriteLock \/ NormalizeSchema
         \/ Validate \/ CheckContracts \/ GenerateSums \/ FinalizeSums \/ VerifySums \/ Build
  PROVE  StepsLeft' < StepsLeft
<1> USE DEF Step
<1>1. SUFFICES Turns' = Turns /\ Others' \in Nat /\ Others' < Others
  BY LeftNatural DEF StepsLeft
<1>2. ForDrivers' = ForDrivers \/ pc' # "drivers"
  BY DEF WriteDriverLock, WriteDriverSources, NormalizePkgbuild, FindSource, CheckArchive,
     FetchConfig, WriteLog, AfterLog, WriteBase, LockTag, WriteSources, WriteLock,
     NormalizeSchema, Validate, CheckContracts, GenerateSums, FinalizeSums, VerifySums, Build
<1>3. ForComponents' = ForComponents /\ ForAudit' = ForAudit
  BY DEF ForComponents, ForAudit
<1>4. CASE WriteDriverLock \/ WriteDriverSources \/ NormalizePkgbuild \/ FindSource
           \/ CheckArchive \/ FetchConfig \/ WriteBase
           \/ (\E name \in {"manifest", "overrides", "record"} : WriteLog(name))
  <2>1. channel' = channel /\ channel \in {"stable", "index"}
        /\ (pc = "archive" => channel = "stable")
    BY Inside DEF Job, IInv, Forms, SourceHeld
  <2>2. \/ pc = "driverlock" /\ pc' = "driversources"
        \/ pc = "driversources" /\ pc' = "normalize"
        \/ pc = "normalize" /\ pc' = "source"
        \/ pc = "source" /\ pc' = IF channel = "stable" THEN "archive" ELSE "manifest"
        \/ pc = "archive" /\ pc' = "config"
        \/ pc = "config" /\ pc' = IF channel = "stable" THEN "manifest" ELSE "record"
        \/ pc = "manifest" /\ pc' = IF channel = "stable" THEN "overrides" ELSE "config"
        \/ pc = "overrides" /\ pc' = "record"
        \/ pc = "record" /\ pc' = IF channel = "stable" THEN "base" ELSE "tag"
        \/ pc = "base" /\ pc' = "tag"
    BY <1>4 DEF WriteDriverLock, WriteDriverSources, NormalizePkgbuild, FindSource, CheckArchive,
       FetchConfig, WriteBase, WriteLog, AfterLog
  <2>3. pc \in BeforeSelect /\ pc' \in BeforeSelect
    BY <2>1, <2>2 DEF BeforeSelect, Locating
  <2>4. Turns' = Turns
    BY <1>3, <2>3 DEF Turns, BeforeSelect, Locating
  <2>5. Others' \in Nat /\ Others' < Others
    BY <2>1, <2>2 DEF Others
  <2> QED
    BY <2>4, <2>5
<1>5. CASE LockTag
  <2>1. pc = "tag" /\ pc' = "select" /\ Len(job'.got) = 0
    BY <1>5 DEF LockTag, Keep, Idle
  <2>2. Turns' = Turns
    BY <1>3, <2>1, TurnTypes DEF Turns, BeforeSelect, Locating
  <2> QED
    BY <2>1, <2>2 DEF Others
<1>6. CASE WriteSources \/ WriteLock \/ NormalizeSchema
  <2>1. \/ pc = "sources" /\ pc' = "lock"
        \/ pc = "lock" /\ pc' = "schema"
        \/ pc = "schema" /\ pc' = "validate"
    <3>1. WriteSources => pc = "sources" /\ pc' = "lock"
      BY DEF WriteSources
    <3>2. WriteLock => pc = "lock" /\ pc' = "schema"
      BY DEF WriteLock
    <3>3. NormalizeSchema => pc = "schema" /\ pc' = "validate"
      BY DEF NormalizeSchema
    <3> QED
      BY <1>6, <3>1, <3>2, <3>3
  <2>2. Turns' = Turns
    BY <1>3, <2>1 DEF Turns, BeforeSelect, BeforeAudit, Locating
  <2> QED
    BY <2>1, <2>2 DEF Others
<1>7. CASE Validate
  <2>1. pc = "validate" /\ pc' = "audit" /\ job'.todo = Repositories /\ job'.pass = 1
    BY <1>7 DEF Validate, Idle
  <2>2. AuditsLeft' = ForAudit
    BY <2>1 DEF AuditsLeft, ForAudit
  <2>3. Turns' = Turns
    BY <1>3, <2>1, <2>2 DEF Turns, BeforeSelect, BeforeAudit, Locating
  <2> QED
    BY <2>1, <2>3 DEF Others
<1>8. CASE CheckContracts \/ GenerateSums \/ FinalizeSums \/ VerifySums \/ Build
  <2>1. \/ pc = "contracts" /\ pc' = "generate"
        \/ pc = "generate" /\ pc' = "finalize"
        \/ pc = "finalize" /\ pc' = "verify"
        \/ pc = "verify" /\ pc' = "build"
        \/ pc = "build" /\ pc' = "done"
    <3>1. CheckContracts => pc = "contracts" /\ pc' = "generate"
      BY DEF CheckContracts
    <3>2. GenerateSums => pc = "generate" /\ pc' = "finalize"
      BY DEF GenerateSums
    <3>3. FinalizeSums => pc = "finalize" /\ pc' = "verify"
      BY DEF FinalizeSums
    <3>4. VerifySums => pc = "verify" /\ pc' = "build"
      BY DEF VerifySums
    <3>5. Build => pc = "build" /\ pc' = "done"
      BY DEF Build
    <3> QED
      BY <1>8, <3>1, <3>2, <3>3, <3>4, <3>5
  <2>2. Turns' = Turns
    BY <2>1 DEF Turns, BeforeSelect, BeforeAudit, Locating
  <2> QED
    BY <2>1, <2>2 DEF Others
<1> QED
  BY <1>4, <1>5, <1>6, <1>7, <1>8

LEMMA RefuseStep == ASSUME IInv, AuditHeld, Refuse PROVE StepsLeft' < StepsLeft
<1>1. Turns' = 0 /\ Others' = 0
  BY DEF Refuse, Turns, Others, BeforeSelect, BeforeAudit, Locating
<1>2. pc \in {"driverlock", "normalize", "base", "tag", "source", "archive", "select",
              "patches", "schema", "validate", "audit", "contracts", "verify", "build"}
  BY DEF Refuse, Refusal, ReadsPkgbuild
<1>3. Others > 0
  BY <1>2 DEF Others
<1> QED
  BY <1>1, <1>3, LeftNatural DEF StepsLeft

LEMMA TurnTaken ==
  ASSUME NEW all \in Nat, NEW later \in Nat, NEW taken \in Nat, NEW now, now = taken + 1,
         now <= all
  PROVE  /\ (all - now) + all + later \in Nat
         /\ (all - now) + all + later < (all - taken) + all + later
OBVIOUS

\* The steps that take a turn.
LEMMA TurnSteps ==
  ASSUME IInv, IInv', AuditHeld,
         \/ \E d \in Drivers : ResolveDriver(d)
         \/ Select \/ WritePatch
         \/ \E r \in Repositories : Audit(r)
  PROVE  StepsLeft' < StepsLeft
<1>1. ForComponents' = ForComponents /\ ForAudit' = ForAudit
  BY DEF ForComponents, ForAudit
<1>2. SUFFICES Turns' \in Nat /\ Turns' < Turns /\ Others' = Others
  BY LeftNatural DEF StepsLeft
<1>3. CASE \E d \in Drivers : ResolveDriver(d)
  <2> PICK d \in Drivers : ResolveDriver(d)
    BY <1>3
  <2>1. /\ pc = "drivers" /\ pc' \in {"drivers", "driverlock"} /\ d \notin DOMAIN job.drivers
        /\ DOMAIN job'.drivers = DOMAIN job.drivers \cup {d}
    BY DEF ResolveDriver, Step, Keep, IInv, Forms
  <2> DEFINE Rest == Drivers \ DOMAIN job.drivers
  <2>2. IsFiniteSet(Rest) /\ d \in Rest /\ Drivers \ DOMAIN job'.drivers = Rest \ {d}
    BY <2>1, DriversAssumption, FS_Difference
  <2> HIDE DEF Rest
  <2>3. Cardinality(Rest \ {d}) = Cardinality(Rest) - 1 /\ Cardinality(Rest) \in Nat
        /\ Cardinality(Rest \ {d}) \in Nat
    BY <2>2, FS_RemoveElement, FS_CardinalityType
  <2>4. ForDrivers \in Nat /\ ForDrivers' \in Nat /\ ForDrivers' = ForDrivers - 1
    BY <2>2, <2>3 DEF ForDrivers, Rest
  <2>5. Turns' \in Nat /\ Turns' < Turns
    BY <1>1, <2>1, <2>4, TurnTypes DEF Turns, BeforeSelect
  <2> QED
    BY <2>1, <2>5 DEF Others
<1>4. CASE Select
  <2>0. /\ ForComponents \in Nat /\ ForAudit \in Nat
        /\ Len(job.got) \in Nat /\ Len(job.got) + 1 <= ForComponents
    <3>1. pc = "select"
      BY <1>4 DEF Select, Step
    <3>2. ForComponents \in Nat /\ ForAudit \in Nat /\ Len(job.got) \in Nat
          /\ Len(job.got) < ForComponents
      BY <3>1, TurnTypes
    <3> HIDE DEF ForComponents
    <3> QED
      BY <3>2
  <2>1. /\ pc = "select" /\ job.got \in Seq(Nat) /\ Len(job'.got) = Len(job.got) + 1
        /\ pc' = IF Len(job.got) + 1 = Len(Components) THEN "patches" ELSE "select"
        /\ job'.written = job.written /\ job.written = 0
    <3>1. pc = "select" /\ job.got \in Seq(Nat) /\ job.written = 0
      BY <1>4 DEF Select, Step, IInv, TreesKept, FilesHeld, Resolving
    <3>2. \E commit : job'.got = Append(job.got, commit)
      BY <1>4 DEF Select, Keep, IInv, Forms
    <3>3. Len(job'.got) = Len(job.got) + 1
      BY <3>1, <3>2
    <3>4. /\ pc' = IF Len(job.got) + 1 = Len(Components) THEN "patches" ELSE "select"
          /\ job'.written = job.written
      BY <1>4 DEF Select, Step, Keep, IInv, Forms
    <3> QED
      BY <3>1, <3>3, <3>4
  <2>2. Turns = (ForComponents - Len(job.got)) + ForComponents + ForAudit
    BY <2>1 DEF Turns, BeforeSelect, Locating
  <2>3. Turns' = (ForComponents - Len(job'.got)) + ForComponents + ForAudit
    <3>1. CASE pc' = "select"
      BY <1>1, <3>1 DEF Turns, BeforeSelect, Locating
    <3>2. CASE pc' = "patches"
      <4>1. job'.written = 0 /\ Len(job'.got) = ForComponents
        BY <2>1, <3>2 DEF ForComponents
      <4>2. Turns' = (ForComponents - 0) + ForAudit
        BY <1>1, <3>2, <4>1 DEF Turns, BeforeSelect, Locating
      <4> QED
        BY <4>1, <4>2, <2>0
    <3> QED
      BY <2>1, <3>1, <3>2
  <2>4. Turns' \in Nat /\ Turns' < Turns
    <3>1. Len(job'.got) = Len(job.got) + 1
      BY <2>1
    <3> QED
      BY <2>0, <2>2, <2>3, <3>1, TurnTaken
  <2> QED
    BY <2>1, <2>4 DEF Others
<1>5. CASE WritePatch
  <2>0. /\ ForComponents \in Nat /\ ForAudit \in Nat
        /\ job.written \in Nat /\ job.written + 1 <= ForComponents
    BY <1>5, TurnTypes DEF WritePatch, Step
  <2>1. /\ pc = "patches" /\ job'.written = job.written + 1
        /\ pc' = IF job.written + 1 = Len(Components) THEN "sources" ELSE "patches"
    BY <1>5 DEF WritePatch, Step, IInv, Forms
  <2>2. Turns = (ForComponents - job.written) + ForAudit
    BY <2>1 DEF Turns, BeforeSelect, Locating
  <2>3. Turns' = (ForComponents - (job.written + 1)) + ForAudit
    <3>1. CASE pc' = "patches"
      BY <1>1, <2>1, <3>1 DEF Turns, BeforeSelect, Locating
    <3>2. CASE pc' = "sources"
      <4>1. job.written + 1 = ForComponents
        BY <2>1, <3>2 DEF ForComponents
      <4>2. Turns' = ForAudit
        BY <1>1, <3>2 DEF Turns, BeforeSelect, BeforeAudit, Locating
      <4> QED
        BY <4>1, <4>2, <2>0
    <3> QED
      BY <2>1, <3>1, <3>2
  <2>4. Turns' \in Nat /\ Turns' < Turns
    BY <2>0, <2>1, <2>2, <2>3
  <2> QED
    BY <2>1, <2>4 DEF Others
<1>6. CASE \E r \in Repositories : Audit(r)
  <2> PICK r \in Repositories : Audit(r)
    BY <1>6
  <2> DEFINE rest == job.todo \ {r}
  <2>1. /\ pc = "audit" /\ r \in job.todo
        /\ pc' = (IF rest = {} /\ job.pass = 2 THEN "contracts" ELSE "audit")
        /\ IF rest = {} /\ job.pass = 1 THEN job'.todo = Repositories /\ job'.pass = 2
                                       ELSE job'.pass = job.pass /\ job'.todo = rest
    BY DEF Audit, Step, Keep, IInv, Forms
  <2>2. IsFiniteSet(job.todo) /\ job.pass \in {1, 2}
    BY <2>1, ListsFinite, FS_Subset DEF AuditHeld
  <2>3. /\ Cardinality(rest) = Cardinality(job.todo) - 1 /\ Cardinality(job.todo) \in Nat
        /\ Cardinality(rest) \in Nat
    BY <2>1, <2>2, FS_RemoveElement, FS_CardinalityType
  <2> HIDE DEF rest
  <2>4. AuditsLeft' = AuditsLeft - 1 /\ AuditsLeft \in Nat /\ AuditsLeft' \in Nat
    <3>1. CASE rest = {} /\ job.pass = 1
      <4>1. Cardinality(job.todo) = 1
        BY <2>3, <3>1, FS_EmptySet
      <4> QED
        BY <2>1, <3>1, <4>1, ListsFinite DEF AuditsLeft
    <3>2. CASE ~(rest = {} /\ job.pass = 1)
      BY <2>1, <2>2, <2>3, <3>2, ListsFinite DEF AuditsLeft
    <3> QED
      BY <3>1, <3>2
  <2>5. Turns' \in Nat /\ Turns' < Turns
    BY <2>1, <2>4 DEF Turns, BeforeSelect, BeforeAudit, Locating
  <2> QED
    BY <2>1, <2>5 DEF Others
<1> QED
  BY <1>3, <1>4, <1>5, <1>6

\* The servers do not touch the job.
LEMMA ServersKeep == ASSUME Servers \/ UNCHANGED vars PROVE StepsLeft' = StepsLeft
BY Outside DEF StepsLeft, Turns, Others, ForDrivers, ForComponents, ForAudit, AuditsLeft

(* Every job ends, with a build or a failure, whatever Valve and the       *)
(* projects publish meanwhile and wherever requests fail: it begins with at*)
(* most 20 steps, one more for each driver and two more for each component *)
(* and each repository; each of its steps takes one away, and nothing else *)
(* adds one.  That a daily job is not held up is the part of EndsFresh     *)
(* that is no matter of fairness.                                          *)
THEOREM JobFinite == Spec => [](StepsLeft \in Nat) /\ Nearer
<1>1. Init => AuditHeld
  BY DEF Init, AuditHeld
<1>2. IInv /\ AuditHeld /\ [Next]_vars => AuditHeld'
  BY AuditStep
<1>3. IInv /\ AuditHeld => StepsLeft \in Nat
  BY LeftNatural
<1>4. IInv /\ IInv' /\ AuditHeld /\ AuditHeld' /\ [Next]_vars =>
        [/\ Job => StepsLeft' < StepsLeft
         /\ pc \notin {"failed", "done"} => StepsLeft' <= StepsLeft]_vars
  <2> SUFFICES ASSUME IInv, IInv', AuditHeld, AuditHeld', Next
               PROVE  /\ Job => StepsLeft' < StepsLeft
                      /\ pc \notin {"failed", "done"} => StepsLeft' <= StepsLeft
    OBVIOUS
  <2>1. StepsLeft \in Nat /\ StepsLeft' \in Nat
    <3>1. (IInv /\ AuditHeld => StepsLeft \in Nat)'
      BY LeftNatural, PTL
    <3> QED
      BY <3>1, LeftNatural
  <2>2. Job => StepsLeft' < StepsLeft
    BY PlainSteps, RefuseStep, TurnSteps DEF Job
  <2>3. Servers => StepsLeft' = StepsLeft
    BY ServersKeep
  <2>4. (\E torn \in BOOLEAN : Fail(torn)) => StepsLeft' = 0
    BY DEF Fail, StepsLeft, Turns, Others, BeforeSelect, BeforeAudit, Locating
  <2>5. (\E fresh \in BOOLEAN : Rerun(fresh)) => pc \in {"failed", "done"}
    BY DEF Rerun
  <2>6. StepsLeft' < StepsLeft => StepsLeft' <= StepsLeft
    BY <2>1
  <2>7. Next => Job \/ Servers \/ StepsLeft' = 0 \/ pc \in {"failed", "done"}
    BY <2>4, <2>5 DEF Next
  <2> QED
    BY <2>1, <2>2, <2>3, <2>6, <2>7
<1> QED
  BY <1>1, <1>2, <1>3, <1>4, Invariant, PTL DEF Spec, Nearer
=============================================================================
