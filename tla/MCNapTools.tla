------------------------------ MODULE MCNapTools ------------------------------
(* A small instance of NapTools: three hunks, one of which shrinks the file,   *)
(* and upstream commits of both reviewed contracts and of every refused kind.  *)
EXTENDS NapTools

MCHunks == <<[old |-> 3, new |-> 5], [old |-> 4, new |-> 2], [old |-> 3, new |-> 4]>>

Legacy == [regular |-> TRUE, complete |-> TRUE, conflict |-> FALSE,
           error |-> "legacy", import |-> "legacy", places |-> <<{1}, {6}, {12}>>]
Ported == [Legacy EXCEPT !.error = "0.6.5", !.import = "0.6.5", !.places = <<{3}, {8}, {12}>>]

MCRefs == {Legacy, Ported,
           [Ported EXCEPT !.import = "legacy"],
           [Ported EXCEPT !.places = <<{8}, {3}, {12}>>],
           [Ported EXCEPT !.places = <<{3}, {8, 20}, {12}>>],
           [Legacy EXCEPT !.places = <<{1}, {}, {12}>>],
           [Ported EXCEPT !.complete = FALSE],
           [Ported EXCEPT !.conflict = TRUE]}
=============================================================================
