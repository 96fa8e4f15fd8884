----------------------------- MODULE MCResourceLists -----------------------------
(* Match values and symmetry for ResourceLists. *)
EXTENDS ResourceLists, TLC

CONSTANTS on, off, only, bad, one, two

MCNumeric    == {one, two}
MCBegins     == {<<only, on>>}
MCMatchValue == {<< <<one>>, <<on, off>> >>}   \* like [1, 'on|off']
MCSymmetry   == Permutations(Res)
=============================================================================
