------------------------------ MODULE MCTextIndex ------------------------------
(* A store with a span each for two events; the third, of the first span,   *)
(* gives it the searched terms.  The most probable cut of "wxyz" is not the *)
(* one that takes the longest word first at every place.                    *)
EXTENDS TextIndex

CONSTANTS t1, t2

MCLower == [c \in {"a", "A"} |-> "a"]
MCBase == (<<"x", "y">> :> 64) @@ (<<"y", "z">> :> 8) @@ (<<"w", "x", "y">> :> 2)
MCDomain == (<<"x", "y">> :> 1) @@ (<<"z">> :> 4)
MCUser == (<<"y", "z">> :> 2)
MCDoc == <<1, 2, 1>>
MCText == << <<"x", "A">>, <<"x", "y", "z">>, <<"x", "y", " ", "x", "y", "z">> >>
MCStored == {1, 2}
MCKeys == {<< <<"x", "y", "z">>, 1 >>}
MCFiltered == {<< <<"w", "x", "y", "z">>, 1, {1, 2} >>}
MCSymmetry == Permutations(Threads)
=============================================================================
