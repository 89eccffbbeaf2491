----------------------------- MODULE MCPatchLock -----------------------------
(* A small instance of PatchLock: upstream families like those of the       *)
(* manifest, kernels on both sides of the boundary between two major        *)
(* versions, and the kinds of component the manifest declares.              *)
EXTENDS PatchLock

MCKernels == [base |-> <<6, 18, 5>>, stable |-> <<7, 2, 1>>]

V(core, stage, serial) == [core |-> core, stage |-> stage, serial |-> serial]

File(path, kernel, project, release, bytes) ==
  [path |-> path, digits |-> kernel, kernel |-> kernel, project |-> project,
   release |-> release, commit |-> "c1", bytes |-> bytes, listed |-> TRUE]

\* Releases of one project: 1.3-rc1, 1.3 in two variants, and 1.3r2.
Versioned ==
  { File(1, <<7, 2>>, V(<<1, 3>>, "rc", 1), 1, "a"),
    File(2, <<7, 1>>, V(<<1, 3>>, "plain", 0), 2, "b"),
    File(3, <<6, 18>>, V(<<1, 3, 0>>, "plain", 0), 2, "c"),
    File(4, <<7, 2, 1>>, V(<<1, 3>>, "r", 2), 3, "d") }

\* A family whose directories name kernels only, and one that names neither
\* kernel nor version, with an answer that is junk and a file no regex lists.
MCFiles ==
  [versioned |-> Versioned,
   kernels |-> { File(1, <<7, 1>>, None, 0, "g"), File(2, <<7, 2>>, None, 0, "l"),
                 File(3, <<6, 2>>, None, 0, "h"), File(4, <<6, 19>>, None, 0, "i") },
   agnostic |-> { [File(1, <<>>, None, 0, "j") EXCEPT !.digits = <<700>>],
                  [File(2, <<>>, None, 0, "k") EXCEPT !.digits = <<0>>, !.listed = FALSE],
                  [File(3, <<>>, None, 0, Junk) EXCEPT !.digits = <<600>>] },
   http |-> { File(1, <<>>, None, 0, "p"), File(2, <<>>, None, 0, "q") }]

\* The port made for q is broken.
MCPorts == [b \in {"a", "b", "c", "d", "g", "h", "i", "j", "k", "l", "p", "q",
                   Junk, "reviewed before", None} |->
              CASE b = Junk -> "port of junk" [] b \in {None, "q"} -> Junk [] OTHER -> "port of " \o b]

Component(kind, family, local, adaptive, scope, versioned) ==
  [kind |-> kind, family |-> family, local |-> local, adaptive |-> adaptive,
   scope |-> scope, versioned |-> versioned, whenIncompatible |-> TRUE,
   pinned |-> "pinned", sha |-> IF local = None THEN None ELSE "reviewed before",
   version |-> IF versioned /\ local # None THEN V(<<1, 1>>, "plain", 0) ELSE None]

MCSpecs ==
  { Component("github_tree", "versioned", "port.patch", None, <<6, 18>>, TRUE),
    Component("github_tree", "versioned", None, "poc-selector-valve", <<7, 2>>, TRUE),
    Component("github_tree", "kernels", "port.patch", None, <<7, 2>>, FALSE),
    Component("github_tree", "kernels", None, "another-adapter", <<7, 2, 1>>, FALSE),
    Component("github_tree", "kernels", None, None, None, FALSE),
    Component("github_tree", "agnostic", None, None, None, FALSE),
    Component("http_patch", "http", "port.patch", None, <<6, 18>>, FALSE),
    [Component("http_patch", "http", None, None, None, FALSE) EXCEPT !.pinned = None] }

MCFits == {{}, {"direct"}, {"port", "adapted"}}

MCUrls == {<<Junk, Junk>>, <<Junk, "p">>, <<"p", "q">>, <<"q", "p">>}
=============================================================================
