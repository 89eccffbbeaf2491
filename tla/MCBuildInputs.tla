----------------------------- MODULE MCBuildInputs -----------------------------
(* A small instance of BuildInputs: two components of one repository and one  *)
(* of another, one driver, and two stable images, of series 7.2 and 7.3.      *)
EXTENDS BuildInputs

Package(core, valve, pkgrel) ==
  [series |-> Series(core), core |-> core, rc |-> -1, valve |-> valve, beta |-> 0,
   pkgrel |-> pkgrel]

StableOf(version, build) ==
  [branch |-> "stable", valid |-> TRUE, version |-> version, build |-> build]

Older == StableOf(<<3, 9>>, <<20260901, 1>>)
Newer == StableOf(<<3, 10>>, <<20260801, 1>>)

MCImages == {Older, Newer}
MCStock == [i \in MCImages |-> IF i = Older THEN {Package(<<7, 2, 7>>, <<2>>, 1)}
                                            ELSE {Package(<<7, 3, 0>>, <<1>>, 1)}]
MCComponents == <<"bore", "poc_selector", "bore_sched_ext">>
MCRepositoryOf == [bore |-> "bore-scheduler", bore_sched_ext |-> "bore-scheduler",
                   poc_selector |-> "poc-selector"]
MCDrivers == {"xone"}

\* With series 7.3 the first revision of PoC does not look like a patch, and the
\* second of BORE has no compatible file; with 7.2 a pushed revision of each is
\* refused by the validator, the audit and the compiler.
Fault(at, core, valve, component, commit) ==
  [at |-> at, tag |-> TagOf(Package(core, valve, 1)), files |-> One(component, commit)]

MCFaults ==
  { Fault("select", <<7, 3, 0>>, <<1>>, "bore_sched_ext", 2),
    Fault("patches", <<7, 3, 0>>, <<1>>, "poc_selector", 1),
    Fault("validate", <<7, 2, 7>>, <<2>>, "bore", 2),
    Fault("audit", <<7, 2, 7>>, <<2>>, "poc_selector", 2),
    Fault("build", <<7, 2, 7>>, <<2>>, "xone", 2) }
=============================================================================
